---- MODULE Spec2Model ----
(***************************************************************************)
(* Model of the note/chord registry, the ratio/scale engine and the        *)
(* periodic gate of doremichord (src/unnamed/part_000, with the variants   *)
(* of src/audio.js and of MusicSoundManager in brostepGrowlBass.js).       *)
(*                                                                         *)
(* Numbers.  A JavaScript number is modelled as an exact fraction <<n, d>> *)
(* in lowest terms with d > 0; NaN is <<0, 0>>.  Floating-point rounding   *)
(* is not modelled.  A missing property (undefined) is <<>>.               *)
(***************************************************************************)
EXTENDS Integers, Sequences, FiniteSets, TLC

VARIABLES
    ROOT_FREQUENCY,     \* part_000:233   let ROOT_FREQUENCY
    bassMode,           \* part_000:447   window.bassMode
    activeNotes,        \* part_000:719   let activeNotes = {}
    voices,             \* the voice objects that are held by an entry or still sounding
    lastCall,           \* history: the last registry operation and its events
    chordIn,            \* input of the buildChordFrequencies check
    chordOut,           \* its result
    gateAmount,         \* part_000:462
    gateSpeedSequence,  \* part_000:463
    gateBaseSequence,   \* part_000:464
    gateSequenceIndex,  \* part_000:465
    gateRandomEnabled,  \* part_000:466
    gateTimeout,        \* part_000:468   the timer handle, 0 for null
    timers,             \* the runtime's pending setTimeout callbacks
    gateGain,           \* part_000:456   gateGain.gain, the gate bus gain parameter
    bpm,                \* window.bpm, 0 when unset
    lastGate,           \* history: the last gate operation
    callIn,             \* a function of the engine or of the gate and its arguments
    callOut,            \* <<>> before the call, <<result>> after it
    audioContext,       \* brostepGrowlBass.js:3     created or not
    sidechainGainGrowl, \* brostepGrowlBass.js:13    the gain parameter of the growl bus
    musicAudioContext,  \* brostepGrowlBass.js:1145  window.musicSoundManager.audioContext
    sidechainGainWatersynth,    \* window.sidechainGainWatersynth, its gain parameter
    lastDuck            \* history: the last step of the sidechain duck

registryVars == <<ROOT_FREQUENCY, bassMode, activeNotes, voices, lastCall>>
chordVars == <<chordIn, chordOut>>
gateVars == <<gateAmount, gateSpeedSequence, gateBaseSequence, gateSequenceIndex,
              gateRandomEnabled, gateTimeout, timers, gateGain, bpm, lastGate>>
callVars == <<callIn, callOut>>
pureVars == <<chordVars, callVars>>
duckVars == <<audioContext, sidechainGainGrowl, musicAudioContext, sidechainGainWatersynth,
              lastDuck>>
outsideRegistry == <<pureVars, gateVars, duckVars>>
outsideGate == <<registryVars, pureVars, duckVars>>
outsideDuck == <<registryVars, pureVars, gateVars>>

vars == <<registryVars, pureVars, gateVars, duckVars>>

-----------------------------------------------------------------------------
(* Bounds and input sets *)

MaxVoices == 6
MaxExtensions == 4
MaxSequence == 2
MaxLeaked == 3
MaxStops == 2

\* Note keys are own-property names of activeNotes; names that Object.prototype
\* already carries (such as "constructor") are outside the input set.
KeyOrder == <<"keyA", "keyB">>
NoteKeys == {KeyOrder[i] : i \in DOMAIN KeyOrder}
DegreeInputs == {2, 6}
ExtensionInputs == {<<>>, <<"seventh">>}
RootInputs == {<<26163, 100>>, <<432, 1>>}
BendInputs == {<<1, 1>>, <<2, 1>>}
ExtensionNames ==
    {"seventh", "minorSeventh", "ninth", "eleventh", "thirteenth", "major", "minor", "sus4"}
ChordTypeInputs == {"major", "minor", "dim"}

-----------------------------------------------------------------------------
(* Numbers *)

NaN == <<0, 0>>
Undefined == <<>>

RECURSIVE GCD(_, _)
GCD(a, b) == IF b = 0 THEN a ELSE GCD(b, a % b)

Norm(n, d) == LET g == GCD(n, d) IN <<n \div g, d \div g>>

Mul(a, b) == IF a = NaN \/ b = NaN THEN NaN ELSE Norm(a[1] * b[1], a[2] * b[2])

Infinity == <<1, 0>>
One == <<1, 1>>

IsFinite(x) == x[2] # 0

\* a / b for non-negative operands
Div(a, b) ==
    IF a = NaN \/ b = NaN THEN NaN
    ELSE IF b = Infinity THEN (IF a = Infinity THEN NaN ELSE <<0, 1>>)
    ELSE IF a = Infinity THEN Infinity
    ELSE IF b[1] = 0 THEN (IF a[1] = 0 THEN NaN ELSE Infinity)
    ELSE Norm(a[1] * b[2], a[2] * b[1])

\* a - b for finite operands
Sub(a, b) == Norm(a[1] * b[2] - b[1] * a[2], a[2] * b[2])

RECURSIVE SeqsUpTo(_, _)
SeqsUpTo(S, n) ==
    IF n = 0 THEN {<<>>}
    ELSE LET shorter == SeqsUpTo(S, n - 1)
         IN shorter \cup {Append(q, x) : q \in shorter, x \in S}

\* JavaScript truthiness of a number-or-undefined value
Truthy(x) == x # Undefined /\ x # NaN /\ x[1] # 0

-----------------------------------------------------------------------------
(* Ratio/Scale engine *)

MAJOR_SCALE_RATIOS ==
    << <<5, 6>>, <<15, 16>>, <<1, 1>>, <<9, 8>>, <<5, 4>>, <<4, 3>>, <<3, 2>>, <<5, 3>> >>

DegreeIndices == 0 .. (Len(MAJOR_SCALE_RATIOS) - 1)

\* The object literal: the two triads are arrays of ratio arrays, the five
\* extensions are single ratio arrays.
CHORD_INTERVALS ==
    [ major        |-> [shape |-> "triad", intervals |-> << <<1, 1>>, <<5, 4>>, <<3, 2>> >>],
      minor        |-> [shape |-> "triad", intervals |-> << <<1, 1>>, <<6, 5>>, <<3, 2>> >>],
      seventh      |-> [shape |-> "ratio", ratio |-> <<15, 8>>],
      minorSeventh |-> [shape |-> "ratio", ratio |-> <<9, 5>>],
      ninth        |-> [shape |-> "ratio", ratio |-> <<9, 4>>],
      eleventh     |-> [shape |-> "ratio", ratio |-> <<11, 4>>],
      thirteenth   |-> [shape |-> "ratio", ratio |-> <<5, 3>>] ]

RecognizedExtensions == {"seventh", "minorSeventh", "ninth", "eleventh", "thirteenth"}

scaleDegreeChordTypes ==
    <<"minor", "minor", "major", "minor", "minor", "major", "major", "minor">>

\* rootFreq * (ratio[0] / ratio[1]); when the elements of the array are
\* themselves arrays (a triad entry) the quotient is NaN.
getFrequencyFromRatio(entry, rootFreq) ==
    IF entry.shape = "ratio" THEN Mul(rootFreq, entry.ratio) ELSE NaN

getScaleNoteFrequency(noteIndex) ==
    Mul(ROOT_FREQUENCY, MAJOR_SCALE_RATIOS[noteIndex + 1])

getNoteFrequency(noteIndex) == getScaleNoteFrequency(noteIndex)

\* intervals.forEach(...): over a triad entry each element is a ratio array;
\* over an extension entry [n, d] each element is a plain number.
TriadFrequencies(entry, rootFreq) ==
    IF entry.shape = "triad"
    THEN [i \in 1 .. Len(entry.intervals) |-> Mul(rootFreq, entry.intervals[i])]
    ELSE <<Mul(rootFreq, <<entry.ratio[1], 1>>), Mul(rootFreq, <<entry.ratio[2], 1>>)>>

RECURSIVE ExtensionFrequencies(_, _)
ExtensionFrequencies(extensions, rootFreq) ==
    IF extensions = <<>> THEN <<>>
    ELSE LET ext == Head(extensions)
             rest == ExtensionFrequencies(Tail(extensions), rootFreq)
         IN IF ext \in DOMAIN CHORD_INTERVALS
            THEN <<getFrequencyFromRatio(CHORD_INTERVALS[ext], rootFreq)>> \o rest
            ELSE rest

\* mutant: the extensions are emitted before the triad
buildChordFrequencies_ExtensionsFirst(rootNoteIndex, chordType, extensions) ==
    LET rootFreq == getScaleNoteFrequency(rootNoteIndex)
        intervals == IF chordType \in DOMAIN CHORD_INTERVALS
                     THEN CHORD_INTERVALS[chordType]
                     ELSE CHORD_INTERVALS.major
    IN ExtensionFrequencies(extensions, rootFreq) \o TriadFrequencies(intervals, rootFreq)

buildChordFrequencies(rootNoteIndex, chordType, extensions) ==
    LET rootFreq == getScaleNoteFrequency(rootNoteIndex)
        intervals == IF chordType \in DOMAIN CHORD_INTERVALS
                     THEN CHORD_INTERVALS[chordType]
                     ELSE CHORD_INTERVALS.major
    IN TriadFrequencies(intervals, rootFreq) \o ExtensionFrequencies(extensions, rootFreq)

-----------------------------------------------------------------------------
(* Voices *)

\* WaterSynth.createSustainedNote: the returned components carry no
\* baseFrequency; the oscillator is ramped to the requested frequency.
createSustainedNote(frequency) ==
    [baseFrequency |-> Undefined, frequency |-> frequency, stops |-> 0, sub |-> FALSE]

createSubBass(frequency) ==
    [baseFrequency |-> frequency, frequency |-> frequency, stops |-> 0, sub |-> TRUE]

\* The running state of one registry call: the registry, the voice table and
\* the events of the call in program order.
Machine == [notes |-> activeNotes, vs |-> voices, trace |-> <<>>, threw |-> FALSE]

\* stopNote: release ramp on the voice's gain, then oscillator.stop
stopNote(M, id) ==
    [M EXCEPT !.vs = [@ EXCEPT ![id].stops = @ + 1],
              !.trace = Append(@, [e |-> "stop", v |-> id])]

RECURSIVE stopChord(_, _)
stopChord(M, oscillators) ==
    IF oscillators = <<>> THEN M
    ELSE stopChord(stopNote(M, Head(oscillators)), Tail(oscillators))

\* a voice object returned by the factory enters the voice table
NewVoice(M, comp) ==
    [M EXCEPT !.vs = Append(@, comp),
              !.trace = Append(@, [e |-> "create", v |-> Len(M.vs) + 1])]

RECURSIVE NewVoices(_, _)
NewVoices(M, comps) ==
    IF comps = <<>> THEN M ELSE NewVoices(NewVoice(M, Head(comps)), Tail(comps))

Has(notes, noteKey) == noteKey \in DOMAIN notes

\* the voices the entries hold, entry after entry in key order
RECURSIVE Held(_, _)
Held(notes, i) ==
    IF i > Len(KeyOrder) THEN <<>>
    ELSE (IF Has(notes, KeyOrder[i]) THEN notes[KeyOrder[i]] ELSE <<>>) \o Held(notes, i + 1)

RECURSIVE Ascending(_)
Ascending(S) ==
    IF S = {} THEN <<>>
    ELSE LET m == CHOOSE x \in S : \A y \in S : x <= y IN <<m>> \o Ascending(S \ {m})

Range(s) == {s[i] : i \in DOMAIN s}

Put(notes, noteKey, oscillators) ==
    [k \in DOMAIN notes \cup {noteKey} |-> IF k = noteKey THEN oscillators ELSE notes[k]]

Remove(notes, noteKey) == [k \in DOMAIN notes \ {noteKey} |-> notes[k]]

\* ids of the voices a call has added to the table
CreatedIds(M0, M) == [i \in 1 .. (Len(M.vs) - Len(M0.vs)) |-> Len(M0.vs) + i]

NoIndex == -1

\* mutant: the bass voice doubles the degree in its own octave
addBassNoteIfEnabled_SameOctave(M, noteIndex) ==
    IF bassMode /\ noteIndex # NoIndex
    THEN NewVoice(M, createSubBass(getScaleNoteFrequency(noteIndex)))
    ELSE M

addBassNoteIfEnabled(M, noteIndex) ==
    IF bassMode /\ noteIndex # NoIndex
    THEN NewVoice(M, createSubBass(Mul(getScaleNoteFrequency(noteIndex), <<1, 2>>)))
    ELSE M

-----------------------------------------------------------------------------
(* Note/Chord registry operations, as functions on the machine state *)

StartNoteM(M0, frequency, noteKey, noteIndex) ==
    LET M1 == IF Has(M0.notes, noteKey) THEN stopChord(M0, M0.notes[noteKey]) ELSE M0
        noteComponents == [createSustainedNote(frequency) EXCEPT !.baseFrequency = frequency]
        M2 == NewVoice(M1, noteComponents)
        M3 == addBassNoteIfEnabled(M2, noteIndex)
    IN [M3 EXCEPT !.notes = Put(@, noteKey, CreatedIds(M0, M3))]

\* mutant: the previous entry of the key is overwritten without being released
StartChordM_NoRelease(M0, noteIndex, noteKey, extensions) ==
    LET chordType == scaleDegreeChordTypes[noteIndex + 1]
        frequencies == buildChordFrequencies(noteIndex, chordType, extensions)
        comps == [i \in 1 .. Len(frequencies) |->
                     [createSustainedNote(frequencies[i]) EXCEPT !.baseFrequency = frequencies[i]]]
        M2 == NewVoices(M0, comps)
        M3 == addBassNoteIfEnabled(M2, noteIndex)
    IN [M3 EXCEPT !.notes = Put(@, noteKey, CreatedIds(M0, M3))]

StartChordM(M0, noteIndex, noteKey, extensions) ==
    LET M1 == IF Has(M0.notes, noteKey) THEN stopChord(M0, M0.notes[noteKey]) ELSE M0
        chordType == scaleDegreeChordTypes[noteIndex + 1]
        frequencies == buildChordFrequencies(noteIndex, chordType, extensions)
        comps == [i \in 1 .. Len(frequencies) |->
                     [createSustainedNote(frequencies[i]) EXCEPT !.baseFrequency = frequencies[i]]]
        M2 == NewVoices(M1, comps)
        M3 == addBassNoteIfEnabled(M2, noteIndex)
    IN [M3 EXCEPT !.notes = Put(@, noteKey, CreatedIds(M0, M3))]

\* mutant: the single-voice branch is taken for every entry
StopNoteByKeyM_FirstOnly(M0, noteKey) ==
    IF Has(M0.notes, noteKey)
    THEN [stopNote(M0, M0.notes[noteKey][1]) EXCEPT !.notes = Remove(@, noteKey)]
    ELSE M0

\* mutant: a miss falls through to releasing every entry
StopNoteByKeyM_MissReleasesAll(M0, noteKey) ==
    IF Has(M0.notes, noteKey)
    THEN [stopChord(M0, M0.notes[noteKey]) EXCEPT !.notes = Remove(@, noteKey)]
    ELSE [stopChord(M0, Held(M0.notes, 1)) EXCEPT !.notes = <<>>]

StopNoteByKeyM(M0, noteKey) ==
    IF Has(M0.notes, noteKey)
    THEN LET oscillators == M0.notes[noteKey]
             M1 == IF Len(oscillators) > 1
                   THEN stopChord(M0, oscillators)
                   ELSE stopNote(M0, oscillators[1])
         IN [M1 EXCEPT !.notes = Remove(@, noteKey)]
    ELSE M0

\* mutant: the iteration ends after the first key
StopKeysM_FirstOnly(M, keys) ==
    IF keys = <<>> THEN M ELSE StopNoteByKeyM(M, Head(keys))

RECURSIVE StopKeysM(_, _)
StopKeysM(M, keys) ==
    IF keys = <<>> THEN M ELSE StopKeysM(StopNoteByKeyM(M, Head(keys)), Tail(keys))

\* mutant: the bend is applied to the current target, not to the base frequency
BendVoice_Cumulative(M, id, pitchBendMultiplier) ==
    IF ~Truthy(M.vs[id].baseFrequency) THEN M
    ELSE [M EXCEPT !.vs = [@ EXCEPT ![id].frequency =
                                Mul(M.vs[id].frequency, pitchBendMultiplier)],
                   !.trace = Append(@, [e |-> "bend", v |-> id])]

\* mutant: the bent frequency becomes the voice's base frequency
BendVoice_MovesBase(M, id, pitchBendMultiplier) ==
    IF ~Truthy(M.vs[id].baseFrequency) THEN M
    ELSE [M EXCEPT !.vs = [@ EXCEPT ![id].frequency =
                                Mul(M.vs[id].baseFrequency, pitchBendMultiplier),
                                    ![id].baseFrequency =
                                Mul(M.vs[id].baseFrequency, pitchBendMultiplier)],
                   !.trace = Append(@, [e |-> "bend", v |-> id])]

BendVoice(M, id, pitchBendMultiplier) ==
    IF ~Truthy(M.vs[id].baseFrequency) THEN M
    ELSE [M EXCEPT !.vs = [@ EXCEPT ![id].frequency =
                                Mul(M.vs[id].baseFrequency, pitchBendMultiplier)],
                   !.trace = Append(@, [e |-> "bend", v |-> id])]

RECURSIVE BendEach(_, _, _)
BendEach(M, oscillators, pitchBendMultiplier) ==
    IF oscillators = <<>> THEN M
    ELSE BendEach(BendVoice(M, Head(oscillators), pitchBendMultiplier),
                  Tail(oscillators), pitchBendMultiplier)

UpdatePitchBendM(M0, noteKey, pitchBendMultiplier) ==
    IF ~Has(M0.notes, noteKey) THEN M0
    ELSE BendEach(M0, M0.notes[noteKey], pitchBendMultiplier)

-----------------------------------------------------------------------------
(* Registry actions *)

\* Object identity.  A voice is named by its position in the voice table.
\* After each call the table is compacted: a voice that was stopped and is
\* held by no entry is unreachable and leaves the table; the voices of the
\* entries come first, in key order, then the voices still sounding outside
\* the registry.  In the trace of a call a stop event names the voice by its
\* position before the call, a create or bend event by its position after it.
Compact(M) ==
    LET held == Held(M.notes, 1)
        loose == {id \in DOMAIN M.vs : M.vs[id].stops = 0 /\ id \notin Range(held)}
        order == held \o Ascending(loose)
        pos(id) == CHOOSE i \in DOMAIN order : order[i] = id
    IN [notes |-> [k \in DOMAIN M.notes |->
                      [j \in DOMAIN M.notes[k] |-> pos(M.notes[k][j])]],
        vs |-> [i \in DOMAIN order |-> M.vs[order[i]]],
        trace |-> [j \in DOMAIN M.trace |->
                      IF M.trace[j].e = "stop" THEN M.trace[j]
                      ELSE [M.trace[j] EXCEPT !.v = pos(@)]],
        threw |-> M.threw]

NoCall == [op |-> "init", key |-> "", m |-> <<1, 1>>, idx |-> NoIndex, ext |-> <<>>, trace |-> <<>>,
           threw |-> FALSE]

\* a call leaves its name, its arguments and its events in lastCall
Call(op, noteKey, m, noteIndex, extensions, M) ==
    LET C == Compact(M)
    IN /\ activeNotes' = C.notes
       /\ voices' = C.vs
       /\ lastCall' = [op |-> op, key |-> noteKey, m |-> m, idx |-> noteIndex,
                       ext |-> extensions, trace |-> C.trace, threw |-> C.threw]

startNote ==
    \E noteKey \in NoteKeys, i \in DegreeInputs : \E noteIndex \in {i, NoIndex} :
        LET M == StartNoteM(Machine, getNoteFrequency(i), noteKey, noteIndex)
        IN /\ Len(Compact(M).vs) <= MaxVoices
           /\ Call("startNote", noteKey, <<1, 1>>, noteIndex, <<>>, M)
           /\ UNCHANGED <<ROOT_FREQUENCY, bassMode, outsideRegistry>>

startChord ==
    \E noteKey \in NoteKeys, noteIndex \in DegreeInputs, extensions \in ExtensionInputs :
        LET M == StartChordM(Machine, noteIndex, noteKey, extensions)
        IN /\ Len(Compact(M).vs) <= MaxVoices
           /\ Call("startChord", noteKey, <<1, 1>>, noteIndex, extensions, M)
           /\ UNCHANGED <<ROOT_FREQUENCY, bassMode, outsideRegistry>>

\* Voice creation that can fail.  A factory call throws when it is handed a
\* NaN frequency (setValueAtTime rejects a non-finite value, before the
\* oscillator is started) or when the audio context refuses a node: failAt is
\* the rank of the factory call the context refuses, 0 for none.  The
\* exception leaves the function at once; nothing catches it.  A degree index
\* outside the scale makes MAJOR_SCALE_RATIOS[noteIndex] undefined, and
\* getScaleNoteFrequency throws a TypeError on note.ratio: in startChord from
\* buildChordFrequencies, after the previous entry was released; in startNote
\* from addBassNoteIfEnabled, after the note voice was created.
NoFault == 0
OutOfRangeIndex == Len(MAJOR_SCALE_RATIOS)

FirstThrow(frequencies, failAt) ==
    LET throwing == {i \in DOMAIN frequencies : frequencies[i] = NaN \/ i = failAt}
    IN IF throwing = {} THEN NoFault ELSE CHOOSE i \in throwing : \A j \in throwing : i <= j

StartNoteF(M0, frequency, noteKey, noteIndex, failAt) ==
    LET M1 == IF Has(M0.notes, noteKey) THEN stopChord(M0, M0.notes[noteKey]) ELSE M0
        noteComponents == [createSustainedNote(frequency) EXCEPT !.baseFrequency = frequency]
        withBass == bassMode /\ noteIndex # NoIndex
    IN IF FirstThrow(<<frequency>>, failAt) = 1 THEN [M1 EXCEPT !.threw = TRUE]
       ELSE IF withBass /\ (failAt = 2 \/ noteIndex \notin DegreeIndices)
       THEN [NewVoice(M1, noteComponents) EXCEPT !.threw = TRUE]
       ELSE StartNoteM(M0, frequency, noteKey, noteIndex)

StartChordF(M0, noteIndex, noteKey, extensions, failAt) ==
    LET M1 == IF Has(M0.notes, noteKey) THEN stopChord(M0, M0.notes[noteKey]) ELSE M0
        chordType == scaleDegreeChordTypes[noteIndex + 1]
        frequencies == buildChordFrequencies(noteIndex, chordType, extensions)
        comps == [i \in 1 .. Len(frequencies) |->
                     [createSustainedNote(frequencies[i]) EXCEPT !.baseFrequency = frequencies[i]]]
        first == FirstThrow(frequencies, failAt)
        withBass == bassMode /\ noteIndex # NoIndex
    IN IF noteIndex \notin DegreeIndices THEN [M1 EXCEPT !.threw = TRUE]
       ELSE IF first # NoFault
       THEN [NewVoices(M1, SubSeq(comps, 1, first - 1)) EXCEPT !.threw = TRUE]
       ELSE IF withBass /\ failAt = Len(frequencies) + 1
       THEN [NewVoices(M1, comps) EXCEPT !.threw = TRUE]
       ELSE StartChordM(M0, noteIndex, noteKey, extensions)

FaultExtensionInputs == {<<>>, <<"minor">>}
FaultDegreeInputs == {2}
FaultKeys == {"keyA"}

\* voices that sound and that no entry of activeNotes holds
Leaked(M) == {id \in DOMAIN M.vs : M.vs[id].stops = 0} \ Range(Held(M.notes, 1))

startNoteF ==
    \E noteKey \in FaultKeys, i \in FaultDegreeInputs, failAt \in NoFault .. 2 :
    \E noteIndex \in {i, NoIndex, OutOfRangeIndex} :
        LET M == StartNoteF(Machine, getNoteFrequency(i), noteKey, noteIndex, failAt)
        IN /\ Len(Compact(M).vs) <= MaxVoices
           /\ Cardinality(Leaked(Compact(M))) <= MaxLeaked
           /\ \A id \in DOMAIN M.vs : M.vs[id].stops <= MaxStops
           /\ Call("startNote", noteKey, <<1, 1>>, noteIndex, <<>>, M)
           /\ UNCHANGED <<ROOT_FREQUENCY, bassMode, outsideRegistry>>

startChordF ==
    \E noteKey \in FaultKeys, noteIndex \in FaultDegreeInputs \cup {OutOfRangeIndex},
       extensions \in FaultExtensionInputs, failAt \in NoFault .. 4 :
        LET M == StartChordF(Machine, noteIndex, noteKey, extensions, failAt)
        IN /\ Len(Compact(M).vs) <= MaxVoices
           /\ Cardinality(Leaked(Compact(M))) <= MaxLeaked
           /\ \A id \in DOMAIN M.vs : M.vs[id].stops <= MaxStops
           /\ Call("startChord", noteKey, <<1, 1>>, noteIndex, extensions, M)
           /\ UNCHANGED <<ROOT_FREQUENCY, bassMode, outsideRegistry>>

\* clearActiveNotes: the map is replaced by an empty one; no voice is touched
clearActiveNotes ==
    LET M == [Machine EXCEPT !.notes = <<>>]
    IN /\ Cardinality(Leaked(Compact(M))) <= MaxLeaked
       /\ Call("clearActiveNotes", "", <<1, 1>>, NoIndex, <<>>, M)
       /\ UNCHANGED <<ROOT_FREQUENCY, bassMode, outsideRegistry>>

stopNoteByKey ==
    \E noteKey \in NoteKeys :
        /\ Call("stopNoteByKey", noteKey, <<1, 1>>, NoIndex, <<>>,
                StopNoteByKeyM(Machine, noteKey))
        /\ UNCHANGED <<ROOT_FREQUENCY, bassMode, outsideRegistry>>

\* Object.keys(activeNotes) in the object's key order, which the registry
\* function does not record: any order of the present keys.
KeyOrders(notes) ==
    {s \in [1 .. Cardinality(DOMAIN notes) -> DOMAIN notes] :
        \A i, j \in DOMAIN s : i # j => s[i] # s[j]}

stopAllNotes ==
    \E keys \in KeyOrders(activeNotes) :
        /\ Call("stopAllNotes", "", <<1, 1>>, NoIndex, <<>>, StopKeysM(Machine, keys))
        /\ UNCHANGED <<ROOT_FREQUENCY, bassMode, outsideRegistry>>

updatePitchBend ==
    \E noteKey \in NoteKeys, pitchBendMultiplier \in BendInputs :
        /\ Call("updatePitchBend", noteKey, pitchBendMultiplier, NoIndex, <<>>,
                UpdatePitchBendM(Machine, noteKey, pitchBendMultiplier))
        /\ UNCHANGED <<ROOT_FREQUENCY, bassMode, outsideRegistry>>

\* mutant: the sounding voices are retuned to the new root
updateRootFrequency_Retune ==
    \E newFrequency \in RootInputs :
        LET shift == <<newFrequency[1] * ROOT_FREQUENCY[2], newFrequency[2] * ROOT_FREQUENCY[1]>>
        IN /\ ROOT_FREQUENCY' = newFrequency
           /\ voices' = [id \in DOMAIN voices |->
                            [voices[id] EXCEPT !.baseFrequency = Mul(@, shift)]]
           /\ lastCall' = [NoCall EXCEPT !.op = "updateRootFrequency"]
           /\ UNCHANGED <<bassMode, activeNotes, outsideRegistry>>

updateRootFrequency ==
    \E newFrequency \in RootInputs :
        /\ ROOT_FREQUENCY' = newFrequency
        /\ lastCall' = [NoCall EXCEPT !.op = "updateRootFrequency"]
        /\ UNCHANGED <<bassMode, activeNotes, voices, outsideRegistry>>

\* window.bassMode is a public flag, written by the settings surface
setBassMode ==
    \E b \in BOOLEAN :
        /\ b # bassMode
        /\ bassMode' = b
        /\ lastCall' = [NoCall EXCEPT !.op = "setBassMode"]
        /\ UNCHANGED <<ROOT_FREQUENCY, activeNotes, voices, outsideRegistry>>

-----------------------------------------------------------------------------
(* Periodic gate *)

\* A note-value token is a JavaScript string (its characters) or a number.
JSString(chars) == [type |-> "string", chars |-> chars, value |-> NaN]
JSNumber(x) == [type |-> "number", chars |-> <<>>, value |-> x]

TokenInputs == {JSString(<<"4">>), JSString(<<"8", "T">>), JSString(<<"x">>)}
AmountInputs == {0, 50, 100}
BpmInputs == {0, 90}
SpeedInputs == {<<1, 2>>, <<1, 16>>}

Digits == <<"0", "1", "2", "3", "4", "5", "6", "7", "8", "9">>
IsDigit(c) == \E i \in DOMAIN Digits : Digits[i] = c
DigitValue(c) == (CHOOSE i \in DOMAIN Digits : Digits[i] = c) - 1

RECURSIVE ParseDigits(_, _, _)
ParseDigits(chars, i, acc) ==
    IF i > Len(chars) \/ ~IsDigit(chars[i]) THEN acc
    ELSE ParseDigits(chars, i + 1, 10 * acc + DigitValue(chars[i]))

\* parseInt of a string of digits and letters: the leading digits, NaN when
\* there is none
parseInt(chars) ==
    IF Len(chars) = 0 \/ ~IsDigit(chars[1]) THEN NaN
    ELSE <<ParseDigits(chars, 1, 0), 1>>

endsWith(chars, c) == Len(chars) > 0 /\ chars[Len(chars)] = c

\* noteValue.slice(0, -1)
sliceLast(chars) == SubSeq(chars, 1, Len(chars) - 1)

\* mutant: a triplet is two thirds of the plain note of the same N
getNoteDuration_TripletFormula(noteValue, tempo) ==
    LET beatDuration == Div(<<60, 1>>, tempo)
    IN IF noteValue.type = "string" /\ endsWith(noteValue.chars, "T")
       THEN Mul(Div(beatDuration, parseInt(sliceLast(noteValue.chars))), <<2, 3>>)
       ELSE LET numValue == IF noteValue.type = "string"
                            THEN parseInt(noteValue.chars)
                            ELSE noteValue.value
            IN Div(beatDuration, numValue)

getNoteDuration(noteValue, tempo) ==
    LET beatDuration == Div(<<60, 1>>, tempo)
    IN IF noteValue.type = "string" /\ endsWith(noteValue.chars, "T")
       THEN LET baseValue == parseInt(sliceLast(noteValue.chars))
            IN CASE baseValue = <<8, 1>> -> Div(beatDuration, <<3, 1>>)
                 [] baseValue = <<4, 1>> -> Mul(beatDuration, <<2, 3>>)
                 [] baseValue = <<2, 1>> -> Mul(beatDuration, <<4, 3>>)
                 [] baseValue = <<1, 1>> -> Mul(beatDuration, <<8, 3>>)
                 [] OTHER -> beatDuration
       ELSE LET numValue == IF noteValue.type = "string"
                            THEN parseInt(noteValue.chars)
                            ELSE noteValue.value
            IN Div(beatDuration, numValue)

\* Every outcome of the Fisher-Yates loop: at position i (from the last down
\* to the second) any j <= i may be drawn.
\* mutant: the second assignment of the swap reads the overwritten element
Swap_Overwrite(s, i, j) == [s EXCEPT ![i] = s[j]]

Swap(s, i, j) == [s EXCEPT ![i] = s[j], ![j] = s[i]]

RECURSIVE FisherYates(_, _)
FisherYates(shuffled, i) ==
    IF i < 2 THEN {shuffled}
    ELSE UNION {FisherYates(Swap(shuffled, i, j), i - 1) : j \in 1 .. i}

shuffleArray(array) == FisherYates(array, Len(array))

\* the draws of a call that can show in its outcome: the shuffle is not run,
\* or its result is overwritten before it is read, when matters is false
ShuffleChoices(base, matters) == IF matters THEN shuffleArray(base) ELSE {base}

\* The gain parameter of the gate bus: the range its value lies in, and the
\* automation events scheduled on it.
Exactly(x) == [lo |-> x, hi |-> x]

cancelScheduledValues(param) ==
    [value  |-> IF param.events = <<>> THEN param.value
                ELSE [lo |-> Sub(One, param.events[1].duckingAmount), hi |-> One],
     events |-> <<>>]

setValueAtTime(param, x) == [param EXCEPT !.value = Exactly(x)]

setValueCurveAtTime(param, curve) == [param EXCEPT !.events = <<curve>>]

TimerIds(pending) == {t.id : t \in pending}

\* a handle that no pending timer and no kept handle carries
NewTimerId(G) ==
    CHOOSE id \in 1 .. (Cardinality(G.timers) + 2) :
        /\ id \notin TimerIds(G.timers) \cup {G.timeout}
        /\ \A other \in 1 .. (id - 1) : other \in TimerIds(G.timers) \cup {G.timeout}

\* comparison of fractions over their least common denominator
Less(a, b) ==
    LET g == GCD(a[2], b[2]) IN a[1] * (b[2] \div g) < b[1] * (a[2] \div g)
Leq(a, b) == ~Less(b, a)
Min(a, b) == IF Less(b, a) THEN b ELSE a
Max(a, b) == IF Less(a, b) THEN b ELSE a
Add(a, b) == Norm(a[1] * b[2] + b[1] * a[2], a[2] * b[2])

RECURSIVE Pow2(_)
Pow2(k) == IF k = 0 THEN 1 ELSE 2 * Pow2(k - 1)

\* the number of doublings that bring n/d, in (0, 1], into [1, 2)
RECURSIVE Doublings(_, _)
Doublings(n, d) == IF n >= d THEN 0 ELSE 1 + Doublings(2 * n, d)

\* Storing x, in [0, 1], in a Float32Array element: the nearest number with a
\* 24-bit significand, ties to the even one.
Fround(x) ==
    IF x[1] = 0 THEN x
    ELSE LET j == Doublings(x[1], x[2])
             scaled == x[1] * Pow2(j) * Pow2(23)
             floor == scaled \div x[2]
             rest == scaled % x[2]
             m == IF 2 * rest > x[2] \/ (2 * rest = x[2] /\ floor % 2 = 1)
                  THEN floor + 1 ELSE floor
         IN Norm(m, Pow2(j + 23))

\* mutant: the square-wave approximation is not clamped to [-1, 1]
gateCurveSample_NoApproxClamp(amount, squareApprox) ==
    LET duckingAmount == Norm(amount, 100)
        normalized == Mul(Add(squareApprox, One), <<1, 2>>)
        gainValue == Add(Sub(One, duckingAmount), Mul(duckingAmount, normalized))
    IN Fround(Max(<<0, 1>>, Min(One, gainValue)))

\* one element of the curve of scheduleGateCycle, from the gate amount and
\* the value of the three-term approximation at that sample
gateCurveSample(amount, squareApprox) ==
    LET duckingAmount == Norm(amount, 100)
        clampedApprox == Max(<<-1, 1>>, Min(One, squareApprox))
        normalized == Mul(Add(clampedApprox, One), <<1, 2>>)
        gainValue == Add(Sub(One, duckingAmount), Mul(duckingAmount, normalized))
    IN Fround(Max(<<0, 1>>, Min(One, gainValue)))

\* the arguments of a gate operation, as kept in the history
NoArgs == [amount |-> 0, sequence |-> <<>>, randomEnabled |-> FALSE, speed |-> <<0, 1>>]

GateState ==
    [amount |-> gateAmount, seq |-> gateSpeedSequence, base |-> gateBaseSequence,
     index |-> gateSequenceIndex, random |-> gateRandomEnabled,
     timeout |-> gateTimeout, timers |-> timers, gain |-> gateGain,
     played |-> <<>>, threw |-> FALSE, cancelled |-> FALSE, args |-> NoArgs]

\* mutant: the sequence is shuffled when the loop starts and then repeated
scheduleNextGateCycle_ShuffleOnce(G, shuffled) ==
    IF G.amount = 0 \/ Len(G.seq) = 0 THEN G
    ELSE
    LET G1 == IF G.random /\ Len(G.base) > 0 /\ G.timeout = 0
              THEN [G EXCEPT !.seq = shuffled, !.index = 0]
              ELSE G
        noteValue == G1.seq[G1.index + 1]
        gateSpeed == getNoteDuration(noteValue, IF bpm # 0 THEN <<bpm, 1>> ELSE <<120, 1>>)
        curve == [duration |-> gateSpeed, duckingAmount |-> Norm(G1.amount, 100)]
        id == NewTimerId(G1)
    IN IF gateSpeed = Infinity THEN [G1 EXCEPT !.threw = TRUE]
       ELSE IF gateSpeed = NaN
       THEN [G1 EXCEPT !.gain = cancelScheduledValues(@), !.threw = TRUE]
       ELSE [G1 EXCEPT !.gain = setValueCurveAtTime(cancelScheduledValues(@), curve),
                       !.index = (@ + 1) % Len(G1.seq),
                       !.timeout = id,
                       !.timers = @ \cup {[id |-> id, delay |-> Mul(gateSpeed, <<1000, 1>>)]},
                       !.played = <<noteValue>>]

\* mutant: the next cycle is timed by the tempo alone, one beat after this one
scheduleNextGateCycle_BeatTimer(G, shuffled) ==
    IF G.amount = 0 \/ Len(G.seq) = 0 THEN G
    ELSE
    LET G1 == IF G.random /\ Len(G.base) > 0
              THEN [G EXCEPT !.seq = shuffled, !.index = 0]
              ELSE G
        noteValue == G1.seq[G1.index + 1]
        tempo == IF bpm # 0 THEN <<bpm, 1>> ELSE <<120, 1>>
        gateSpeed == getNoteDuration(noteValue, tempo)
        curve == [duration |-> gateSpeed, duckingAmount |-> Norm(G1.amount, 100)]
        id == NewTimerId(G1)
    IN IF gateSpeed = Infinity THEN [G1 EXCEPT !.threw = TRUE]
       ELSE IF gateSpeed = NaN
       THEN [G1 EXCEPT !.gain = cancelScheduledValues(@), !.threw = TRUE]
       ELSE [G1 EXCEPT !.gain = setValueCurveAtTime(cancelScheduledValues(@), curve),
                       !.index = (@ + 1) % Len(G1.seq),
                       !.timeout = id,
                       !.timers = @ \cup {[id |-> id, delay |-> Mul(Div(<<60, 1>>, tempo), <<1000, 1>>)]},
                       !.played = <<noteValue>>]

\* mutant: the cycle is played but no timer is set for the next one
scheduleNextGateCycle_NoRearm(G, shuffled) ==
    IF G.amount = 0 \/ Len(G.seq) = 0 THEN G
    ELSE
    LET G1 == IF G.random /\ Len(G.base) > 0
              THEN [G EXCEPT !.seq = shuffled, !.index = 0]
              ELSE G
        noteValue == G1.seq[G1.index + 1]
        gateSpeed == getNoteDuration(noteValue, IF bpm # 0 THEN <<bpm, 1>> ELSE <<120, 1>>)
        curve == [duration |-> gateSpeed, duckingAmount |-> Norm(G1.amount, 100)]
    IN IF gateSpeed = Infinity THEN [G1 EXCEPT !.threw = TRUE]
       ELSE IF gateSpeed = NaN
       THEN [G1 EXCEPT !.gain = cancelScheduledValues(@), !.threw = TRUE]
       ELSE [G1 EXCEPT !.gain = setValueCurveAtTime(cancelScheduledValues(@), curve),
                       !.index = (@ + 1) % Len(G1.seq),
                       !.played = <<noteValue>>]

\* mutant: the cursor is not moved, so the same token is played in every cycle
scheduleNextGateCycle_NoAdvance(G, shuffled) ==
    IF G.amount = 0 \/ Len(G.seq) = 0 THEN G
    ELSE
    LET G1 == IF G.random /\ Len(G.base) > 0
              THEN [G EXCEPT !.seq = shuffled, !.index = 0]
              ELSE G
        noteValue == G1.seq[G1.index + 1]
        gateSpeed == getNoteDuration(noteValue, IF bpm # 0 THEN <<bpm, 1>> ELSE <<120, 1>>)
        curve == [duration |-> gateSpeed, duckingAmount |-> Norm(G1.amount, 100)]
        id == NewTimerId(G1)
    IN IF gateSpeed = Infinity THEN [G1 EXCEPT !.threw = TRUE]
       ELSE IF gateSpeed = NaN
       THEN [G1 EXCEPT !.gain = cancelScheduledValues(@), !.threw = TRUE]
       ELSE [G1 EXCEPT !.gain = setValueCurveAtTime(cancelScheduledValues(@), curve),
                       !.timeout = id,
                       !.timers = @ \cup {[id |-> id, delay |-> Mul(gateSpeed, <<1000, 1>>)]},
                       !.played = <<noteValue>>]

\* shuffled is the outcome of shuffleArray(gateBaseSequence), used in random
\* mode only.  new Float32Array(Infinity) throws before the parameter is
\* touched; a NaN duration gives an empty array and setValueCurveAtTime
\* throws after cancelScheduledValues has run.
scheduleNextGateCycle(G, shuffled) ==
    IF G.amount = 0 \/ Len(G.seq) = 0 THEN G
    ELSE
    LET G1 == IF G.random /\ Len(G.base) > 0
              THEN [G EXCEPT !.seq = shuffled, !.index = 0]
              ELSE G
        noteValue == G1.seq[G1.index + 1]
        gateSpeed == getNoteDuration(noteValue, IF bpm # 0 THEN <<bpm, 1>> ELSE <<120, 1>>)
        curve == [duration |-> gateSpeed, duckingAmount |-> Norm(G1.amount, 100)]
        id == NewTimerId(G1)
    IN IF gateSpeed = Infinity THEN [G1 EXCEPT !.threw = TRUE]
       ELSE IF gateSpeed = NaN
       THEN [G1 EXCEPT !.gain = cancelScheduledValues(@), !.threw = TRUE]
       ELSE [G1 EXCEPT !.gain = setValueCurveAtTime(cancelScheduledValues(@), curve),
                       !.index = (@ + 1) % Len(G1.seq),
                       !.timeout = id,
                       !.timers = @ \cup {[id |-> id, delay |-> Mul(gateSpeed, <<1000, 1>>)]},
                       !.played = <<noteValue>>]

\* mutant: the handle is dropped but the timer is not cleared
clearGateTimeout_KeepsTimer(G) ==
    IF G.timeout # 0
    THEN [G EXCEPT !.timeout = 0, !.cancelled = G.timeout \in TimerIds(G.timers)]
    ELSE G

clearGateTimeout(G) ==
    IF G.timeout # 0
    THEN [G EXCEPT !.timers = {t \in @ : t.id # G.timeout},
                   !.timeout = 0,
                   !.cancelled = G.timeout \in TimerIds(G.timers)]
    ELSE G

\* mutant: with the amount at 0 the loop returns without touching the gain
startGateLoop_NoReset(G, shuffled) ==
    LET G1 == clearGateTimeout(G)
    IN IF G1.amount = 0 THEN G1
       ELSE IF Len(G1.seq) = 0
       THEN [G1 EXCEPT !.gain = setValueAtTime(cancelScheduledValues(@), One)]
       ELSE scheduleNextGateCycle([G1 EXCEPT !.index = 0], shuffled)

startGateLoop(G, shuffled) ==
    LET G1 == clearGateTimeout(G)
    IN IF G1.amount = 0
       THEN [G1 EXCEPT !.gain = setValueAtTime(cancelScheduledValues(@), One)]
       ELSE IF Len(G1.seq) = 0
       THEN [G1 EXCEPT !.gain = setValueAtTime(cancelScheduledValues(@), One)]
       ELSE scheduleNextGateCycle([G1 EXCEPT !.index = 0], shuffled)

NoGate == [op |-> "init", played |-> <<>>, threw |-> FALSE, cancelled |-> FALSE,
           args |-> NoArgs]

\* a gate operation leaves its name and what it did in lastGate
Gate(op, G) ==
    /\ gateAmount' = G.amount
    /\ gateSpeedSequence' = G.seq
    /\ gateBaseSequence' = G.base
    /\ gateSequenceIndex' = G.index
    /\ gateRandomEnabled' = G.random
    /\ gateTimeout' = G.timeout
    /\ timers' = G.timers
    /\ gateGain' = G.gain
    /\ lastGate' = [op |-> op, args |-> G.args, played |-> G.played, threw |-> G.threw,
                    cancelled |-> G.cancelled]
    /\ UNCHANGED <<bpm, outsideGate>>

updateGateAmount ==
    \E amount \in AmountInputs :
    \E shuffled \in ShuffleChoices(gateBaseSequence, gateRandomEnabled /\ amount # 0) :
        Gate("updateGateAmount", startGateLoop([GateState EXCEPT !.amount = amount,
                                             !.args = [NoArgs EXCEPT !.amount = amount]],
                           shuffled))

DefaultSequence(sequence) == IF Len(sequence) > 0 THEN sequence ELSE <<JSString(<<"4">>)>>

\* first is the outcome of the shuffle of line 673, shuffled that of line 577
updateGateSpeedSequenceG(G, sequence, randomEnabled, first, shuffled) ==
    LET base == DefaultSequence(sequence)
    IN startGateLoop([G EXCEPT !.base = base,
                               !.random = randomEnabled,
                               !.seq = IF randomEnabled THEN first ELSE base,
                               !.index = 0],
                     shuffled)

updateGateSpeedSequence ==
    \E sequence \in SeqsUpTo(TokenInputs, MaxSequence), randomEnabled \in BOOLEAN :
    \E first \in ShuffleChoices(DefaultSequence(sequence), randomEnabled /\ gateAmount = 0),
       shuffled \in ShuffleChoices(DefaultSequence(sequence), randomEnabled /\ gateAmount # 0) :
        Gate("updateGateSpeedSequence",
             updateGateSpeedSequenceG(
                 [GateState EXCEPT !.args = [NoArgs EXCEPT !.sequence = sequence,
                                                           !.randomEnabled = randomEnabled]],
                 sequence, randomEnabled, first, shuffled))

\* Math.round of a non-negative fraction
Round(x) == (2 * x[1] + x[2]) \div (2 * x[2])

Abs(n) == IF n < 0 THEN -n ELSE n

validNoteValues == <<16, 8, 4, 2, 1>>

\* the loop over validNoteValues: a later value wins only when strictly closer
RECURSIVE ClosestFrom(_, _, _)
ClosestFrom(approximateNoteValue, i, closest) ==
    IF i > Len(validNoteValues) THEN closest
    ELSE ClosestFrom(approximateNoteValue, i + 1,
                     IF Abs(approximateNoteValue - validNoteValues[i])
                            < Abs(approximateNoteValue - closest)
                     THEN validNoteValues[i] ELSE closest)

updateGateSpeed ==
    \E speed \in SpeedInputs :
        LET tempo == IF bpm # 0 THEN <<bpm, 1>> ELSE <<120, 1>>
            approximateNoteValue == Round(Div(Div(<<60, 1>>, tempo), speed))
            closest == ClosestFrom(approximateNoteValue, 1, validNoteValues[1])
            sequence == <<JSNumber(<<closest, 1>>)>>
        IN Gate("updateGateSpeed",
                updateGateSpeedSequenceG([GateState EXCEPT !.args = [NoArgs EXCEPT !.speed = speed]],
                                         sequence, FALSE, sequence, sequence))

\* a pending timer fires: the runtime drops it and runs the callback
gateTimerFires ==
    \E t \in timers :
    \E shuffled \in ShuffleChoices(gateBaseSequence, gateRandomEnabled) :
        Gate("timer", scheduleNextGateCycle([GateState EXCEPT !.timers = @ \ {t}], shuffled))

\* window.bpm is written by the tempo control
setBpm ==
    \E b \in BpmInputs :
        /\ b # bpm
        /\ bpm' = b
        /\ lastGate' = [NoGate EXCEPT !.op = "setBpm"]
        /\ UNCHANGED <<gateAmount, gateSpeedSequence, gateBaseSequence, gateSequenceIndex,
                       gateRandomEnabled, gateTimeout, timers, gateGain,
                       outsideGate>>

InitGate ==
    /\ gateAmount = 0
    /\ gateSpeedSequence = <<JSString(<<"4">>)>>
    /\ gateBaseSequence = <<JSString(<<"4">>)>>
    /\ gateSequenceIndex = 0
    /\ gateRandomEnabled = FALSE
    /\ gateTimeout = 0
    /\ timers = {}
    /\ gateGain = [value |-> Exactly(One), events |-> <<>>]
    /\ bpm = 0
    /\ lastGate = NoGate

NextGate ==
    \/ updateGateAmount
    \/ updateGateSpeedSequence
    \/ updateGateSpeed
    \/ gateTimerFires
    \/ setBpm

-----------------------------------------------------------------------------
(* Sidechain duck (brostepGrowlBass.js) *)

\* Time is counted in ticks of half a millisecond of the audio clock.
TickLength == <<1, 2000>>
Ticks(seconds) == Div(seconds, TickLength)[1]

SIDECHAIN_DUCK_AMOUNT == <<1, 2000>>    \* 0.0005
SIDECHAIN_ATTACK == <<1, 1000>>
SIDECHAIN_HOLD == <<1, 10>>
SIDECHAIN_RELEASE == <<1, 10>>

\* A gain parameter with its automation timeline: value is the range the
\* current value lies in (a point outside a ramp), events are the scheduled
\* events still ahead, each `at` ticks from now.
NullGain == [created |-> FALSE, value |-> Exactly(One), events |-> <<>>]
NewGain == [created |-> TRUE, value |-> Exactly(One), events |-> <<>>]

Hull(a, b) == [lo |-> Min(a.lo, b.lo), hi |-> Max(a.hi, b.hi)]
FlooredAt(x, range) == [lo |-> Max(x, range.lo), hi |-> Max(x, range.hi)]

\* cancelScheduledValues(now): every event at or after now is removed
cancelFromNow(param) == [param EXCEPT !.events = <<>>]

\* setValueAtTime(v, now)
setValueNow(param, v) == [param EXCEPT !.value = v]

schedule(param, type, v, seconds) ==
    [param EXCEPT !.events = Append(@, [type |-> type, value |-> v, at |-> Ticks(seconds)])]

\* one tick of the audio clock: an event that comes due sets the value; inside
\* an exponential ramp the value lies between the ramp's ends
Elapse(param) ==
    IF param.events = <<>> THEN param
    ELSE LET later == [i \in DOMAIN param.events |->
                          [param.events[i] EXCEPT !.at = @ - 1]]
             head == later[1]
         IN IF head.at = 0
            THEN [param EXCEPT !.value = head.value, !.events = Tail(later)]
            ELSE [param EXCEPT !.value = IF head.type = "ramp" THEN Hull(@, head.value) ELSE @,
                               !.events = later]

\* mutant: the earlier events are not cancelled
duck_Queued(param) ==
    LET duckLevel == Max(<<1, 1000>>, SIDECHAIN_DUCK_AMOUNT)
        holdEnd == Add(SIDECHAIN_ATTACK, SIDECHAIN_HOLD)
        releaseEnd == Add(holdEnd, SIDECHAIN_RELEASE)
        currentGain == FlooredAt(<<1, 1000>>, param.value)
        p2 == setValueNow(param, currentGain)
        p3 == schedule(p2, "ramp", Exactly(duckLevel), SIDECHAIN_ATTACK)
        p4 == schedule(p3, "set", Exactly(duckLevel), holdEnd)
    IN schedule(p4, "ramp", Exactly(One), releaseEnd)

\* the five calls made on one target gain, all times relative to now
duck(param) ==
    LET duckLevel == Max(<<1, 1000>>, SIDECHAIN_DUCK_AMOUNT)
        holdEnd == Add(SIDECHAIN_ATTACK, SIDECHAIN_HOLD)
        releaseEnd == Add(holdEnd, SIDECHAIN_RELEASE)
        p1 == cancelFromNow(param)
        currentGain == FlooredAt(<<1, 1000>>, p1.value)
        p2 == setValueNow(p1, currentGain)
        p3 == schedule(p2, "ramp", Exactly(duckLevel), SIDECHAIN_ATTACK)
        p4 == schedule(p3, "set", Exactly(duckLevel), holdEnd)
    IN schedule(p4, "ramp", Exactly(One), releaseEnd)

\* mutant: the duck is also applied to the gate bus
triggerSidechainDuck_DucksGateBus ==
    /\ sidechainGainGrowl' =
           IF sidechainGainGrowl.created /\ audioContext
           THEN duck(sidechainGainGrowl) ELSE sidechainGainGrowl
    /\ sidechainGainWatersynth' =
           IF sidechainGainWatersynth.created /\ musicAudioContext
           THEN duck(sidechainGainWatersynth) ELSE sidechainGainWatersynth
    /\ lastDuck' = "triggerSidechainDuck"
    /\ gateGain' = setValueAtTime(cancelScheduledValues(gateGain), One)
    /\ UNCHANGED <<audioContext, musicAudioContext, registryVars, pureVars,
                   gateAmount, gateSpeedSequence, gateBaseSequence, gateSequenceIndex,
                   gateRandomEnabled, gateTimeout, timers, bpm, lastGate>>

triggerSidechainDuck ==
    /\ sidechainGainGrowl' =
           IF sidechainGainGrowl.created /\ audioContext
           THEN duck(sidechainGainGrowl) ELSE sidechainGainGrowl
    /\ sidechainGainWatersynth' =
           IF sidechainGainWatersynth.created /\ musicAudioContext
           THEN duck(sidechainGainWatersynth) ELSE sidechainGainWatersynth
    /\ lastDuck' = "triggerSidechainDuck"
    /\ UNCHANGED <<audioContext, musicAudioContext, outsideDuck>>

\* initAudioContext with initMasterChain: the context, then the growl bus gain
initAudioContext ==
    /\ ~audioContext
    /\ audioContext' = TRUE
    /\ sidechainGainGrowl' = IF ~sidechainGainGrowl.created THEN NewGain ELSE sidechainGainGrowl
    /\ lastDuck' = "initAudioContext"
    /\ UNCHANGED <<musicAudioContext, sidechainGainWatersynth, outsideDuck>>

\* MusicSoundManager.init: the manager takes the context of its WaterSynth
musicSoundManagerInit ==
    /\ ~musicAudioContext
    /\ musicAudioContext' = TRUE
    /\ lastDuck' = "init"
    /\ UNCHANGED <<audioContext, sidechainGainGrowl, sidechainGainWatersynth, outsideDuck>>

\* window.sidechainGainWatersynth is published by the WaterSynth of the
\* manager: a gain node of the manager's context, at full volume
publishSidechainGainWatersynth ==
    /\ musicAudioContext
    /\ ~sidechainGainWatersynth.created
    /\ sidechainGainWatersynth' = NewGain
    /\ lastDuck' = "publish"
    /\ UNCHANGED <<audioContext, musicAudioContext, sidechainGainGrowl, outsideDuck>>

\* both audio clocks advance by one tick
audioClockTick ==
    /\ sidechainGainGrowl.events # <<>> \/ sidechainGainWatersynth.events # <<>>
    /\ sidechainGainGrowl' = Elapse(sidechainGainGrowl)
    /\ sidechainGainWatersynth' = Elapse(sidechainGainWatersynth)
    /\ lastDuck' = "tick"
    /\ UNCHANGED <<audioContext, musicAudioContext, outsideDuck>>

\* SnareDrum.play (ss_snare.js): the hit is built from nodes of the drum's own
\* audio context, connected to that context's destination, and the function
\* returns; it makes no call outside the drum.
SnareDrum_play(event) ==
    /\ lastDuck' = event
    /\ UNCHANGED <<audioContext, musicAudioContext, sidechainGainGrowl, sidechainGainWatersynth,
                   outsideDuck>>

snareDrumPlay == SnareDrum_play("SnareDrum.play")

\* SoundManager.playSound(emoji) (part_001): the drums are created on first
\* use, suspended contexts are resumed, and the drum the emoji names is played.
\* The snare and the closed hat are the drums whose classes src/ holds.
DrumEmojis == {"snare", "closedHat"}

ClosedHat_play(event) ==
    /\ lastDuck' = event
    /\ UNCHANGED <<audioContext, musicAudioContext, sidechainGainGrowl, sidechainGainWatersynth,
                   outsideDuck>>

playSound ==
    \E emoji \in DrumEmojis :
        CASE emoji = "snare" -> SnareDrum_play("playSound(snare)")
          [] emoji = "closedHat" -> ClosedHat_play("playSound(closedHat)")

DuckIdle ==
    /\ audioContext = FALSE
    /\ musicAudioContext = FALSE
    /\ sidechainGainGrowl = NullGain
    /\ sidechainGainWatersynth = NullGain
    /\ lastDuck = "init"

NextDuck ==
    \/ triggerSidechainDuck
    \/ initAudioContext
    \/ musicSoundManagerInit
    \/ publishSidechainGainWatersynth
    \/ audioClockTick

InitRegistry ==
    /\ ROOT_FREQUENCY = <<26163, 100>>
    /\ bassMode \in BOOLEAN      \* false in part_000:447, true in audio.js:231
    /\ activeNotes = <<>>
    /\ voices = <<>>
    /\ lastCall = NoCall

ChordIdle ==
    /\ chordIn = [rootNoteIndex |-> 0, chordType |-> "major", extensions |-> <<>>]
    /\ chordOut = <<>>

NoCallIn == [fn |-> "none"]

CallIdle ==
    /\ callIn = NoCallIn
    /\ callOut = <<>>

Init == InitRegistry /\ ChordIdle /\ CallIdle /\ InitGate /\ DuckIdle

Next ==
    \/ startNote
    \/ startChord
    \/ stopNoteByKey
    \/ stopAllNotes
    \/ updatePitchBend
    \/ updateRootFrequency
    \/ setBassMode

Spec == Init /\ [][Next]_vars

\* The three components in one page: the registry, the gate and the sidechain
\* duck run as independent event handlers of one thread, in any order.
NextMix ==
    \/ startNote
    \/ stopNoteByKey
    \/ updatePitchBend
    \/ updateGateAmount
    \/ gateTimerFires
    \/ initAudioContext
    \/ triggerSidechainDuck

SpecMix == Init /\ [][NextMix]_vars

\* triggers, releases and pitch bends under a fixed root
NextBend ==
    \/ startNote
    \/ startChord
    \/ stopNoteByKey
    \/ updatePitchBend

SpecBend == Init /\ [][NextBend]_vars

\* the registry with the operation that empties the map
NextClear ==
    \/ startNote /\ lastCall'.idx = NoIndex
    \/ startChord /\ lastCall'.ext = <<>>
    \/ stopNoteByKey
    \/ stopAllNotes
    \/ updatePitchBend /\ lastCall'.m = <<2, 1>>
    \/ clearActiveNotes

SpecClear == Init /\ [][NextClear]_vars

\* the registry with a voice factory that can fail
NextFault ==
    \/ startNoteF
    \/ startChordF
    \/ stopNoteByKey
    \/ setBassMode

SpecFault == Init /\ [][NextFault]_vars

-----------------------------------------------------------------------------
(* buildChordFrequencies as a function of its arguments *)

InitChord ==
    /\ ROOT_FREQUENCY \in RootInputs
    /\ bassMode = FALSE
    /\ activeNotes = <<>>
    /\ voices = <<>>
    /\ lastCall = NoCall
    /\ chordIn \in [rootNoteIndex : DegreeIndices, chordType : ChordTypeInputs,
                    extensions : SeqsUpTo(ExtensionNames, MaxExtensions)]
    /\ chordOut = <<>>
    /\ CallIdle
    /\ InitGate
    /\ DuckIdle

BuildChord ==
    /\ chordOut = <<>>
    /\ chordOut' = buildChordFrequencies(chordIn.rootNoteIndex, chordIn.chordType,
                                         chordIn.extensions)
    /\ UNCHANGED <<registryVars, chordIn, callVars, gateVars, duckVars>>

SpecChord == InitChord /\ [][BuildChord]_vars

-----------------------------------------------------------------------------
(* The gate alone: the registry is idle *)

InitGateAlone ==
    /\ ROOT_FREQUENCY = <<26163, 100>>
    /\ bassMode = FALSE
    /\ activeNotes = <<>>
    /\ voices = <<>>
    /\ lastCall = NoCall
    /\ ChordIdle
    /\ CallIdle
    /\ InitGate
    /\ DuckIdle

SpecGate == InitGateAlone /\ [][NextGate]_vars

-----------------------------------------------------------------------------
(* Chord extension policies *)

\* scaleDegreeChordTypes[noteIndex] || 'major'
chordTypeOrMajor(types, noteIndex) ==
    IF noteIndex + 1 \in DOMAIN types THEN types[noteIndex + 1] ELSE "major"

getDiatonicExtensions(noteIndex) == <<>>

\* mutant: the dominant degree follows the quality of its triad
getJazz7Extensions_ByTriad(noteIndex) ==
    IF chordTypeOrMajor(scaleDegreeChordTypes, noteIndex) = "major"
    THEN <<"seventh">> ELSE <<"minorSeventh">>

getJazz7Extensions(noteIndex) ==
    LET chordType == chordTypeOrMajor(scaleDegreeChordTypes, noteIndex)
    IN CASE noteIndex = 0 -> <<"minorSeventh">>
         [] noteIndex = 1 -> <<"minorSeventh">>
         [] noteIndex = 2 -> <<"seventh">>
         [] noteIndex = 3 -> <<"minorSeventh">>
         [] noteIndex = 4 -> <<"minorSeventh">>
         [] noteIndex = 5 -> <<"seventh">>
         [] noteIndex = 6 -> <<"minorSeventh">>
         [] noteIndex = 7 -> <<"minorSeventh">>
         [] OTHER -> IF chordType = "major" THEN <<"seventh">> ELSE <<"minorSeventh">>

getJazz79Extensions(noteIndex) ==
    LET chordType == chordTypeOrMajor(scaleDegreeChordTypes, noteIndex)
    IN CASE noteIndex = 0 -> <<"minorSeventh", "ninth">>
         [] noteIndex = 1 -> <<"minorSeventh", "ninth">>
         [] noteIndex = 2 -> <<"seventh", "ninth">>
         [] noteIndex = 3 -> <<"minorSeventh", "ninth">>
         [] noteIndex = 4 -> <<"minorSeventh", "ninth">>
         [] noteIndex = 5 -> <<"seventh", "ninth">>
         [] noteIndex = 6 -> <<"minorSeventh", "ninth">>
         [] noteIndex = 7 -> <<"minorSeventh", "ninth">>
         [] OTHER -> IF chordType = "major" THEN <<"seventh", "ninth">>
                     ELSE <<"minorSeventh", "ninth">>

getJazz13Extensions(noteIndex) == <<"thirteenth">>

CHORD_MODES == <<"Diatonic", "Jazz7", "Jazz79", "Jazz13">>

getExtensions(mode, noteIndex) ==
    CASE mode = "Diatonic" -> getDiatonicExtensions(noteIndex)
      [] mode = "Jazz7" -> getJazz7Extensions(noteIndex)
      [] mode = "Jazz79" -> getJazz79Extensions(noteIndex)
      [] mode = "Jazz13" -> getJazz13Extensions(noteIndex)

\* MusicSoundManager (brostepGrowlBass.js): the table of 16 degrees
MusicSoundManager_scaleDegreeChordTypes ==
    <<"minor", "minor", "major", "major",
      "minor", "minor", "major", "minor", "minor", "major", "major", "minor",
      "minor", "major", "minor", "minor">>

MusicSoundManager_getJazz79Extensions(noteIndex) ==
    LET chordType == chordTypeOrMajor(MusicSoundManager_scaleDegreeChordTypes, noteIndex)
        isDominant == noteIndex = 3 \/ noteIndex = 10
    IN IF isDominant THEN <<"minorSeventh", "ninth">>
       ELSE IF chordType = "major" THEN <<"seventh", "ninth">>
       ELSE <<"minorSeventh", "ninth">>

-----------------------------------------------------------------------------
(* Functions of their arguments alone: the registry and the gate are idle *)

MaxTempoStep == 8
TempoInputs == {30 * k : k \in 1 .. MaxTempoStep} \cup {100, 128, 174}

PlainTokens == {<<"1">>, <<"2">>, <<"4">>, <<"8">>, <<"1", "6">>}
TripletTokens == {<<"1", "T">>, <<"2", "T">>, <<"4", "T">>, <<"8", "T">>}

DurationCalls ==
    [fn : {"getNoteDuration"},
     noteValue : {JSString(chars) : chars \in PlainTokens \cup TripletTokens},
     bpm : TempoInputs]

CurveAmounts == {10 * k : k \in 0 .. 10}
SquareApproxInputs ==
    {<<-3, 2>>, <<-1, 1>>, <<-1, 2>>, <<0, 1>>, <<1, 2>>, <<1, 1>>, <<3, 2>>}

CurveCalls ==
    [fn : {"gateCurveSample"}, amount : CurveAmounts, squareApprox : SquareApproxInputs]

ExtensionCalls ==
    [fn : {"getExtensions"}, mode : {CHORD_MODES[i] : i \in DOMAIN CHORD_MODES},
     noteIndex : DegreeIndices]
        \cup [fn : {"MusicSoundManager.getJazz79Extensions"},
              noteIndex : 0 .. (Len(MusicSoundManager_scaleDegreeChordTypes) - 1)]

CallInputs == DurationCalls \cup CurveCalls \cup ExtensionCalls

InitCall ==
    /\ ROOT_FREQUENCY = <<26163, 100>>
    /\ bassMode = FALSE
    /\ activeNotes = <<>>
    /\ voices = <<>>
    /\ lastCall = NoCall
    /\ ChordIdle
    /\ InitGate
    /\ callIn \in CallInputs
    /\ callOut = <<>>
    /\ DuckIdle

Returns(fn, result) ==
    /\ callOut = <<>>
    /\ callIn.fn = fn
    /\ callOut' = <<result>>
    /\ UNCHANGED <<registryVars, chordVars, callIn, gateVars, duckVars>>

callGetNoteDuration ==
    Returns("getNoteDuration", getNoteDuration(callIn.noteValue, <<callIn.bpm, 1>>))

callGateCurveSample ==
    Returns("gateCurveSample", gateCurveSample(callIn.amount, callIn.squareApprox))

callGetExtensions ==
    Returns("getExtensions", getExtensions(callIn.mode, callIn.noteIndex))

callManagerGetJazz79Extensions ==
    Returns("MusicSoundManager.getJazz79Extensions",
            MusicSoundManager_getJazz79Extensions(callIn.noteIndex))

NextCall ==
    \/ callGetNoteDuration
    \/ callGateCurveSample
    \/ callGetExtensions
    \/ callManagerGetJazz79Extensions

SpecCall == InitCall /\ [][NextCall]_vars

-----------------------------------------------------------------------------
(* The sidechain duck alone *)

InitDuckAlone ==
    /\ ROOT_FREQUENCY = <<26163, 100>>
    /\ bassMode = FALSE
    /\ activeNotes = <<>>
    /\ voices = <<>>
    /\ lastCall = NoCall
    /\ ChordIdle
    /\ CallIdle
    /\ InitGate
    /\ DuckIdle

SpecDuck == InitDuckAlone /\ [][NextDuck]_vars

\* the drums next to the sidechain duck
NextDrum ==
    \/ snareDrumPlay
    \/ playSound
    \/ triggerSidechainDuck
    \/ initAudioContext
    \/ audioClockTick

SpecDrum == InitDuckAlone /\ [][NextDrum]_vars

-----------------------------------------------------------------------------
(* Properties of the registry *)

VoicesOf(notes, vs, k) == [i \in DOMAIN notes[k] |-> vs[notes[k][i]]]

EventsOf(trace, kind) == {j \in DOMAIN trace : trace[j].e = kind}
EventVoices(trace, kind) == {trace[j].v : j \in EventsOf(trace, kind)}

\* every voice of the sequence has exactly one stop event, and no other
\* voice has one
StoppedExactly(trace, oscillators) ==
    /\ EventVoices(trace, "stop") = Range(oscillators)
    /\ Cardinality(EventsOf(trace, "stop")) = Len(oscillators)

Untouched(k) ==
    /\ Has(activeNotes, k) <=> Has(activeNotes', k)
    /\ Has(activeNotes, k) =>
          VoicesOf(activeNotes', voices', k) = VoicesOf(activeNotes, voices, k)

IsTrigger(call) == call.op \in {"startNote", "startChord"}

\* C1: a trigger on a key first requests stop on every voice of the key's
\* previous entry, then creates the new voices, and leaves under the key one
\* entry that holds exactly the newly created, unstopped voices.
C1_RetriggerReleasesFirst ==
    [][IsTrigger(lastCall') =>
         LET k == lastCall'.key
             t == lastCall'.trace
             old == IF Has(activeNotes, k) THEN activeNotes[k] ELSE <<>>
         IN /\ StoppedExactly(t, old)
            /\ \A i \in EventsOf(t, "stop"), j \in EventsOf(t, "create") : i < j
            /\ EventsOf(t, "create") # {}
            /\ Has(activeNotes', k)
            /\ Range(activeNotes'[k]) = EventVoices(t, "create")
            /\ Len(activeNotes'[k]) = Cardinality(EventsOf(t, "create"))
            /\ \A id \in Range(activeNotes'[k]) : voices'[id].stops = 0
            /\ \A id \in DOMAIN voices' : voices'[id].stops = 0
            /\ \A k2 \in NoteKeys \ {k} : Untouched(k2)]_vars

C1_Witness ==
    /\ lastCall.op = "startChord"
    /\ Cardinality(EventsOf(lastCall.trace, "stop")) >= 3
    /\ Cardinality(EventsOf(lastCall.trace, "create")) >= 3
    /\ Has(activeNotes, lastCall.key)

\* C2: stopNoteByKey on a key that has an entry requests stop once on every
\* voice of the entry, whatever its size, and removes the entry; the entries
\* and voices of the other keys are as before.
C2_ReleaseStopsEveryVoice ==
    [][(lastCall'.op = "stopNoteByKey" /\ Has(activeNotes, lastCall'.key)) =>
         LET k == lastCall'.key
         IN /\ StoppedExactly(lastCall'.trace, activeNotes[k])
            /\ Len(lastCall'.trace) = Len(activeNotes[k])
            /\ ~Has(activeNotes', k)
            /\ \A k2 \in NoteKeys \ {k} : Untouched(k2)
            /\ Len(voices') = Len(voices) - Len(activeNotes[k])]_vars

C2_Witness ==
    /\ lastCall.op = "stopNoteByKey"
    /\ Len(lastCall.trace) = 5
    /\ activeNotes # <<>>

\* C3: stopNoteByKey on a key without an entry stops no voice and leaves the
\* registry and the voices as they were.
C3_ReleaseOfAbsentKeyIsNoOp ==
    [][(lastCall'.op = "stopNoteByKey" /\ ~Has(activeNotes, lastCall'.key)) =>
         /\ lastCall'.trace = <<>>
         /\ activeNotes' = activeNotes
         /\ voices' = voices]_vars

C3_Witness ==
    /\ lastCall.op = "stopNoteByKey"
    /\ lastCall.trace = <<>>
    /\ ~Has(activeNotes, lastCall.key)
    /\ activeNotes # <<>>

\* C4: stopAllNotes leaves the registry empty and requests stop exactly once
\* on every voice that an entry held before the call.
C4_StopAllReleasesEverything ==
    [][lastCall'.op = "stopAllNotes" =>
         /\ activeNotes' = <<>>
         /\ StoppedExactly(lastCall'.trace, Held(activeNotes, 1))
         /\ Len(lastCall'.trace) = Len(Held(activeNotes, 1))
         /\ Len(voices') = Len(voices) - Len(Held(activeNotes, 1))]_vars

C4_Witness ==
    /\ lastCall.op = "stopAllNotes"
    /\ Len(lastCall.trace) >= 6
    /\ activeNotes = <<>>

\* C5: updatePitchBend(noteKey, m) changes nothing when the key has no
\* entry; otherwise each voice of the key's entry with a base frequency gets
\* the target baseFrequency * m and every other voice is as before.
C5_PitchBendFanOut ==
    [][lastCall'.op = "updatePitchBend" =>
         LET k == lastCall'.key
             m == lastCall'.m
         IN /\ activeNotes' = activeNotes
            /\ DOMAIN voices' = DOMAIN voices
            /\ \A id \in DOMAIN voices :
                 IF Has(activeNotes, k) /\ id \in Range(activeNotes[k])
                    /\ Truthy(voices[id].baseFrequency)
                 THEN voices'[id] = [voices[id] EXCEPT
                                        !.frequency = Mul(voices[id].baseFrequency, m)]
                 ELSE voices'[id] = voices[id]
            /\ ~Has(activeNotes, k) => lastCall'.trace = <<>>]_vars

C5_Witness ==
    /\ lastCall.op = "updatePitchBend"
    /\ lastCall.m # <<1, 1>>
    /\ Has(activeNotes, lastCall.key)
    /\ \E k2 \in NoteKeys \ {lastCall.key} :
          /\ Has(activeNotes, k2)
          /\ \A id \in Range(activeNotes[k2]) : voices[id].frequency = voices[id].baseFrequency
    /\ \A id \in Range(activeNotes[lastCall.key]) :
          voices[id].frequency = Mul(voices[id].baseFrequency, lastCall.m)

\* the frequencies a trigger can produce under the current root
RootedFrequencies ==
    LET degree == {getScaleNoteFrequency(i) : i \in DegreeIndices}
        ratios == {<<1, 1>>, <<1, 2>>, <<5, 4>>, <<6, 5>>, <<3, 2>>}
                  \cup {CHORD_INTERVALS[x].ratio : x \in RecognizedExtensions}
    IN {Mul(f, r) : f \in degree, r \in ratios}

\* C6: updateRootFrequency leaves the registry and every voice as they were;
\* no step changes the base frequency of a voice that stays in its entry, and
\* a pitch bend targets the unchanged base frequency times the multiplier.
C6_RootChangeLeavesSoundingVoices ==
    [][/\ lastCall'.op = "updateRootFrequency" =>
             (activeNotes' = activeNotes /\ voices' = voices)
       /\ \A k \in NoteKeys :
             (Has(activeNotes, k) /\ Has(activeNotes', k)
                  /\ ~(IsTrigger(lastCall') /\ lastCall'.key = k)) =>
                /\ Len(activeNotes'[k]) = Len(activeNotes[k])
                /\ \A i \in DOMAIN activeNotes[k] :
                     /\ voices'[activeNotes'[k][i]].baseFrequency
                           = voices[activeNotes[k][i]].baseFrequency
                     /\ (lastCall'.op = "updatePitchBend" /\ lastCall'.key = k) =>
                           voices'[activeNotes'[k][i]].frequency
                              = Mul(voices[activeNotes[k][i]].baseFrequency, lastCall'.m)
                     /\ lastCall'.op # "updatePitchBend" =>
                           voices'[activeNotes'[k][i]].frequency
                              = voices[activeNotes[k][i]].frequency]_vars

C6_Witness ==
    /\ lastCall.op = "updatePitchBend"
    /\ lastCall.m = <<2, 1>>
    /\ Has(activeNotes, lastCall.key)
    /\ \A id \in Range(activeNotes[lastCall.key]) :
          /\ voices[id].baseFrequency \notin RootedFrequencies
          /\ voices[id].frequency = Mul(voices[id].baseFrequency, <<2, 1>>)

-----------------------------------------------------------------------------
(* Properties of buildChordFrequencies *)

IsRecognized(ext) == ext \in RecognizedExtensions
Built == chordOut # <<>>

\* what the claims expect of a call: the declared triad of the chord type,
\* then the ratio of each recognized extension, in request order
DeclaredTriad(chordType) ==
    IF chordType = "minor" THEN << <<1, 1>>, <<6, 5>>, <<3, 2>> >>
    ELSE << <<1, 1>>, <<5, 4>>, <<3, 2>> >>

ExpectedChord(rootFreq, chordType, extensions) ==
    LET rec == SelectSeq(extensions, IsRecognized)
    IN [i \in 1 .. 3 |-> Mul(rootFreq, DeclaredTriad(chordType)[i])]
       \o [j \in 1 .. Len(rec) |-> Mul(rootFreq, CHORD_INTERVALS[rec[j]].ratio)]

\* C7: for a valid degree index, a chord type major or minor and any list of
\* extension names, the result is the three triad frequencies in declared
\* order followed by one frequency per recognized extension in request
\* order, so its length is 3 plus the number of recognized names requested.
C7_TriadThenExtensions ==
    (Built /\ chordIn.chordType \in {"major", "minor"}) =>
        chordOut = ExpectedChord(Mul(ROOT_FREQUENCY, MAJOR_SCALE_RATIOS[chordIn.rootNoteIndex + 1]),
                                 chordIn.chordType, chordIn.extensions)

\* C7 on the requests that name no triad key of the interval table
C7_ApartFromTriadKeys ==
    (Built /\ chordIn.chordType \in {"major", "minor"}
           /\ \A i \in DOMAIN chordIn.extensions : chordIn.extensions[i] \notin {"major", "minor"}) =>
        chordOut = ExpectedChord(Mul(ROOT_FREQUENCY, MAJOR_SCALE_RATIOS[chordIn.rootNoteIndex + 1]),
                                 chordIn.chordType, chordIn.extensions)

\* C8: every extension name other than the five recognized ones adds no
\* element to the result: the result has three elements more than the
\* request has recognized names, and none of them is NaN.
C8_UnknownExtensionsSkipped ==
    Built =>
        /\ Len(chordOut) = 3 + Len(SelectSeq(chordIn.extensions, IsRecognized))
        /\ \A i \in DOMAIN chordOut : chordOut[i] # NaN

-----------------------------------------------------------------------------
(* End-to-end properties of startChord *)

EntryFrequencies(k) == [i \in DOMAIN activeNotes[k] |-> voices[activeNotes[k][i]].frequency]

IsDoChordOnKeyA ==
    /\ lastCall.op = "startChord"
    /\ lastCall.key = "keyA"
    /\ lastCall.idx = 2
    /\ ROOT_FREQUENCY = <<26163, 100>>

\* C9 as claimed: with the root 261.63, startChord(2, "keyA", []) leaves
\* exactly 3 voices at root, root*5/4, root*3/2, and with ['seventh'] exactly
\* 4 voices, the 4th at root*15/8.
C9_AsClaimed ==
    IsDoChordOnKeyA =>
        /\ lastCall.ext = <<>> =>
              EntryFrequencies("keyA") = <<<<26163, 100>>, <<26163, 80>>, <<78489, 200>>>>
        /\ lastCall.ext = <<"seventh">> =>
              EntryFrequencies("keyA")
                 = <<<<26163, 100>>, <<26163, 80>>, <<78489, 200>>, <<78489, 160>>>>

\* C9 as amended: the above holds with the bass-doubling flag off; with the
\* flag on the entry holds one more voice after them, the sub bass at half
\* the root.
C9_DoChordVoices ==
    IsDoChordOnKeyA =>
        LET bass == IF bassMode THEN <<<<26163, 200>>>> ELSE <<>>
        IN /\ lastCall.ext = <<>> =>
                 EntryFrequencies("keyA")
                    = <<<<26163, 100>>, <<26163, 80>>, <<78489, 200>>>> \o bass
           /\ lastCall.ext = <<"seventh">> =>
                 EntryFrequencies("keyA")
                    = <<<<26163, 100>>, <<26163, 80>>, <<78489, 200>>, <<78489, 160>>>> \o bass
           /\ \A i \in DOMAIN activeNotes["keyA"] :
                 voices[activeNotes["keyA"][i]].sub <=> (bassMode /\ i = Len(activeNotes["keyA"]))

C9_Witness ==
    /\ IsDoChordOnKeyA
    /\ lastCall.ext = <<"seventh">>
    /\ ~bassMode
    /\ Len(activeNotes["keyA"]) = 4
    /\ voices[activeNotes["keyA"][4]].frequency = <<78489, 160>>

-----------------------------------------------------------------------------
(* Properties of the gate *)

GateIdle ==
    /\ timers = {}
    /\ gateGain = [value |-> Exactly(One), events |-> <<>>]

\* C10: whenever the gate amount is 0 -- in the state that setting it to 0
\* produces, and in every state that follows while it stays 0, whatever
\* sequence, random-flag, speed or tempo updates are made -- no cycle timer
\* is pending, no gain curve is scheduled, and the gate bus gain is exactly 1.0.
C10_AmountZeroIsIdle == gateAmount = 0 => GateIdle

\* C10, the step: updateGateAmount(0) cancelled a pending timer and left the
\* gate idle at unity gain
C10_Witness ==
    /\ lastGate.op = "updateGateAmount"
    /\ gateAmount = 0
    /\ lastGate.cancelled
    /\ GateIdle

GateRunning == gateAmount # 0 /\ timers # {}

\* C11: a step of updateGateSpeedSequence that passes an empty sequence while
\* the gate is running (amount above 0, a cycle timer pending) ends with no
\* cycle timer pending, no curve scheduled and the gate bus gain at 1.0.
C11_EmptiedSequenceStopsGate ==
    [][(/\ GateRunning
        /\ lastGate'.op = "updateGateSpeedSequence"
        /\ lastGate'.args.sequence = <<>>) => GateIdle']_vars

IsReconfiguration(op) == op \in {"updateGateAmount", "updateGateSpeedSequence", "updateGateSpeed"}

Count(seq, x) == Cardinality({i \in DOMAIN seq : seq[i] = x})

IsPermutation(a, b) ==
    /\ Len(a) = Len(b)
    /\ \A i \in DOMAIN b : Count(a, b[i]) = Count(b, b[i])

Tempo == IF bpm # 0 THEN <<bpm, 1>> ELSE <<120, 1>>

\* the configuration after the step is the one the call asked for
NewConfiguration ==
    /\ lastGate'.op = "updateGateAmount" =>
            /\ gateAmount' = lastGate'.args.amount
            /\ gateBaseSequence' = gateBaseSequence
            /\ gateRandomEnabled' = gateRandomEnabled
    /\ lastGate'.op = "updateGateSpeedSequence" =>
            /\ gateAmount' = gateAmount
            /\ lastGate'.args.sequence # <<>> => gateBaseSequence' = lastGate'.args.sequence
            /\ gateRandomEnabled' = lastGate'.args.randomEnabled
    /\ lastGate'.op = "updateGateSpeed" =>
            /\ gateAmount' = gateAmount
            /\ gateRandomEnabled' = FALSE

\* the cycle the step started played the first token of the working sequence
\* of the new configuration, with the new amount, and moved the cursor past it
FirstCycleAtCursorZero ==
    /\ IF gateRandomEnabled'
       THEN IsPermutation(gateSpeedSequence', gateBaseSequence')
       ELSE gateSpeedSequence' = gateBaseSequence'
    /\ lastGate'.played = <<gateSpeedSequence'[1]>>
    /\ gateSequenceIndex' = 1 % Len(gateSpeedSequence')
    /\ gateGain'.events =
           <<[duration |-> getNoteDuration(gateSpeedSequence'[1], Tempo),
              duckingAmount |-> Norm(gateAmount', 100)]>>

\* C12: at most one gate timer is pending after every step; every
\* reconfiguration (updateGateAmount, updateGateSpeedSequence, updateGateSpeed)
\* cancels the timer that was pending, so that the only timer pending afterwards
\* is the one the call itself created; and when the call starts a cycle, that
\* cycle is at cursor 0 of the new configuration.
C12_ReconfigurationRestarts ==
    [][/\ Cardinality(timers') <= 1
       /\ IsReconfiguration(lastGate'.op) =>
              /\ timers # {} => lastGate'.cancelled
              /\ timers' # {} => /\ lastGate'.played # <<>>
                                 /\ TimerIds(timers') = {gateTimeout'}
              /\ NewConfiguration
              /\ lastGate'.played # <<>> => FirstCycleAtCursorZero]_vars

C12_Witness ==
    /\ lastGate.op = "updateGateSpeedSequence"
    /\ lastGate.cancelled
    /\ lastGate.played # <<>>
    /\ gateRandomEnabled
    /\ Len(gateSpeedSequence) >= 2
    /\ Cardinality(timers) = 1

\* C13: in every reachable state of the gate the working sequence has the
\* length of the base sequence and holds every token as many times as the
\* base sequence does.
C13_WorkingIsPermutationOfBase == IsPermutation(gateSpeedSequence, gateBaseSequence)

\* C13: a cycle timer has fired in random mode and its shuffle left the
\* working sequence in another order than the base sequence
C13_Witness ==
    /\ lastGate.op = "timer"
    /\ gateRandomEnabled
    /\ gateSpeedSequence # gateBaseSequence
    /\ IsPermutation(gateSpeedSequence, gateBaseSequence)

-----------------------------------------------------------------------------
(* Properties of getNoteDuration *)

Returned(fn) == callIn.fn = fn /\ callOut # <<>>

\* the number a plain token names and the factor the law gives a triplet token
PlainN(chars) ==
    CASE chars = <<"1">> -> 1
      [] chars = <<"2">> -> 2
      [] chars = <<"4">> -> 4
      [] chars = <<"8">> -> 8
      [] chars = <<"1", "6">> -> 16

TripletFactor(chars) ==
    CASE chars = <<"8", "T">> -> <<1, 3>>
      [] chars = <<"4", "T">> -> <<2, 3>>
      [] chars = <<"2", "T">> -> <<4, 3>>
      [] chars = <<"1", "T">> -> <<8, 3>>

\* d = (60 / bpm) * f[1] / f[2], on integers
IsBeatTimes(d, tempo, f) ==
    /\ d[2] > 0
    /\ d[1] * tempo * f[2] = 60 * f[1] * d[2]

\* C14: for every tempo, getNoteDuration of a plain token "N" is (60/BPM)/N,
\* and of a triplet token it is (60/BPM) times 1/3 for "8T", 2/3 for "4T",
\* 4/3 for "2T" and 8/3 for "1T".
C14_NoteDurationLaw ==
    Returned("getNoteDuration") =>
        LET chars == callIn.noteValue.chars
        IN IF chars \in PlainTokens
           THEN IsBeatTimes(callOut[1], callIn.bpm, <<1, PlainN(chars)>>)
           ELSE IsBeatTimes(callOut[1], callIn.bpm, TripletFactor(chars))

\* C14: the duration of the half-note triplet "2T" at 90 BPM has been computed
C14_Witness ==
    /\ Returned("getNoteDuration")
    /\ callIn.noteValue = JSString(<<"2", "T">>)
    /\ callIn.bpm = 90
    /\ callOut[1] = <<8, 9>>

\* |x - a/b| <= 1/20000: x is a/b to four decimals
About(x, a, b) ==
    LET diff == x[1] * b - a * x[2]
    IN x[2] > 0 /\ 20000 * Abs(diff) <= x[2] * b

\* C15: at 120 BPM the call getNoteDuration("4", 120) returns exactly 0.5,
\* getNoteDuration("8T", 120) returns 0.1667, getNoteDuration("4T", 120)
\* returns 0.3333 and getNoteDuration("1T", 120) returns 1.3333, each to
\* four decimals.
C15_DurationsAt120 ==
    (Returned("getNoteDuration") /\ callIn.bpm = 120) =>
        LET chars == callIn.noteValue.chars
            d == callOut[1]
        IN /\ chars = <<"4">> => d = <<1, 2>>
           /\ chars = <<"8", "T">> => About(d, 1667, 10000)
           /\ chars = <<"4", "T">> => About(d, 3333, 10000)
           /\ chars = <<"1", "T">> => About(d, 13333, 10000)

\* the three triplet values of C15 alone
C15_TripletsAt120 ==
    (Returned("getNoteDuration") /\ callIn.bpm = 120) =>
        LET chars == callIn.noteValue.chars
            d == callOut[1]
        IN /\ chars = <<"8", "T">> => About(d, 1667, 10000)
           /\ chars = <<"4", "T">> => About(d, 3333, 10000)
           /\ chars = <<"1", "T">> => About(d, 13333, 10000)

-----------------------------------------------------------------------------
(* Properties of the gate curve *)

Within(x, lo, hi) == Leq(lo, x) /\ Leq(x, hi)

DuckFloor(amount) == Sub(One, Norm(amount, 100))

\* C16 as stated: every sample lies within [1 - duckAmount, 1] and within
\* [0, 1], for every gate amount and every value of the approximation.
C16_AsClaimed ==
    Returned("gateCurveSample") =>
        /\ Within(callOut[1], DuckFloor(callIn.amount), One)
        /\ Within(callOut[1], <<0, 1>>, One)

\* C16: every sample lies within [0, 1] and is not below 1 - duckAmount as
\* stored in single precision; for duckAmount 0, 0.5 and 1.0, whose
\* complement is stored exactly, it lies within [1 - duckAmount, 1].
C16_SampleRange ==
    Returned("gateCurveSample") =>
        /\ Within(callOut[1], <<0, 1>>, One)
        /\ Within(callOut[1], Fround(DuckFloor(callIn.amount)), One)
        /\ callIn.amount \in {0, 50, 100} =>
               Within(callOut[1], DuckFloor(callIn.amount), One)

\* C16: a sample at the bottom of the square wave with the gate at 50 percent
C16_Witness ==
    /\ Returned("gateCurveSample")
    /\ callIn.amount = 50
    /\ callIn.squareApprox = <<-3, 2>>
    /\ callOut[1] = <<1, 2>>

-----------------------------------------------------------------------------
(* Properties of the sidechain duck *)

Targets == <<sidechainGainGrowl, sidechainGainWatersynth>>
TargetsAfter == <<sidechainGainGrowl', sidechainGainWatersynth'>>

\* the sequence a trigger leaves on a target whose gain was in range `before`:
\* that gain floored at 0.001 now, a ramp to the floor 0.001 due after 1 ms,
\* the floor held until 101 ms, a ramp to 1.0 due after 201 ms
DuckSequence(before) ==
    [created |-> TRUE,
     value |-> [lo |-> Max(<<1, 1000>>, before.lo), hi |-> Max(<<1, 1000>>, before.hi)],
     events |-> << [type |-> "ramp", value |-> Exactly(<<1, 1000>>), at |-> 2],
                   [type |-> "set", value |-> Exactly(<<1, 1000>>), at |-> 202],
                   [type |-> "ramp", value |-> Exactly(One), at |-> 402] >>]

\* what is left of a duck sequence: a suffix of its three events ending with
\* the ramp to 1.0, or nothing with the gain at 1.0
Settling(param) ==
    IF param.events = <<>> THEN param.value = Exactly(One)
    ELSE LET last == param.events[Len(param.events)]
         IN /\ last.type = "ramp" /\ last.value = Exactly(One) /\ last.at \in 1 .. 402
            /\ Len(param.events) <= 3
            /\ Leq(<<1, 1000>>, param.value.lo) /\ Leq(param.value.hi, One)

\* C17: a trigger leaves on every created target gain exactly the duck
\* sequence, whatever an earlier trigger had scheduled on it; and after every
\* step each created target holds at most the rest of one duck sequence, which
\* ends at 1.0 no later than 201 ms ahead, or nothing with its gain at 1.0.
C17_LastTriggerWins ==
    [][\A i \in DOMAIN Targets :
          TargetsAfter[i].created =>
              /\ Settling(TargetsAfter[i])
              /\ (lastDuck' = "triggerSidechainDuck" /\ Targets[i].created) =>
                     TargetsAfter[i] = DuckSequence(Targets[i].value)]_vars

\* C17: a trigger has arrived while both targets were inside the sequence of
\* an earlier trigger
C17_Witness ==
    /\ lastDuck = "triggerSidechainDuck"
    /\ sidechainGainGrowl.created /\ sidechainGainWatersynth.created
    /\ sidechainGainGrowl.value = [lo |-> <<1, 1000>>, hi |-> One]
    /\ sidechainGainWatersynth.value = [lo |-> <<1, 1000>>, hi |-> One]
    /\ Len(sidechainGainGrowl.events) = 3

-----------------------------------------------------------------------------
(* Properties of the chord extension policies *)

\* the degrees by name, as the tables' comments give them
DegreeNames == <<"La", "Ti", "Do", "Re", "Mi", "Fa", "So", "La">>

ManagerDegreeNames ==
    <<"Re", "Mi", "Fa", "So", "La", "Ti", "Do", "Re", "Mi", "Fa", "So", "La",
      "Ti", "Do", "Re", "Mi">>

\* the seventh a degree takes: minor on the dominant and on minor degrees,
\* major on the other major degrees
SeventhOf(name, triad) ==
    IF name = "So" \/ triad = "minor" THEN "minorSeventh" ELSE "seventh"

\* C18: for every degree index of the table, Jazz7 returns ['minorSeventh']
\* for the dominant degree So, whose triad is major, ['seventh'] for every
\* other major degree and ['minorSeventh'] for every minor degree; Jazz79
\* returns the same extension followed by 'ninth' (in the 16-degree table of
\* MusicSoundManager too); Diatonic returns no extension and Jazz13 returns
\* ['thirteenth'].
C18_ExtensionPolicies ==
    /\ Returned("getExtensions") =>
          LET i == callIn.noteIndex + 1
              seventh == SeventhOf(DegreeNames[i], scaleDegreeChordTypes[i])
          IN /\ DegreeNames[i] = "So" => scaleDegreeChordTypes[i] = "major"
             /\ callIn.mode = "Diatonic" => callOut[1] = <<>>
             /\ callIn.mode = "Jazz7" => callOut[1] = <<seventh>>
             /\ callIn.mode = "Jazz79" => callOut[1] = <<seventh, "ninth">>
             /\ callIn.mode = "Jazz13" => callOut[1] = <<"thirteenth">>
    /\ Returned("MusicSoundManager.getJazz79Extensions") =>
          LET i == callIn.noteIndex + 1
              seventh == SeventhOf(ManagerDegreeNames[i],
                                   MusicSoundManager_scaleDegreeChordTypes[i])
          IN /\ ManagerDegreeNames[i] = "So" =>
                    MusicSoundManager_scaleDegreeChordTypes[i] = "major"
             /\ callOut[1] = <<seventh, "ninth">>

\* C18: Jazz7 has been asked for the dominant degree So
C18_Witness ==
    /\ Returned("getExtensions")
    /\ callIn.mode = "Jazz7"
    /\ callIn.noteIndex = 6
    /\ callOut[1] = <<"minorSeventh">>

-----------------------------------------------------------------------------
(* Properties of the registry under failing voice creation *)

\* C19: after a startNote or startChord that threw part-way, the call has
\* recorded no entry (the key holds no voice the call created) and every
\* voice the call created has been stopped: none keeps sounding outside the
\* registry.
C19_NothingHalfCreated ==
    lastCall.threw =>
        LET created == EventVoices(lastCall.trace, "create")
        IN /\ Has(activeNotes, lastCall.key) =>
                  Range(activeNotes[lastCall.key]) \cap created = {}
           /\ \A id \in created : voices[id].stops > 0

-----------------------------------------------------------------------------
(* Properties of the gate on malformed tokens *)

\* a token that is not numeric, or a triplet token whose N is not 1, 2, 4 or 8
Malformed(noteValue) ==
    /\ noteValue.type = "string"
    /\ IF endsWith(noteValue.chars, "T")
       THEN parseInt(sliceLast(noteValue.chars)) \notin {<<1, 1>>, <<2, 1>>, <<4, 1>>, <<8, 1>>}
       ELSE parseInt(noteValue.chars) = NaN

\* the token the last cycle played, or the one it stopped at when it threw
TokenAtCursor ==
    IF lastGate.played # <<>> THEN lastGate.played[1]
    ELSE gateSpeedSequence[gateSequenceIndex + 1]

\* C20: no gate operation and no timer callback raises an error, and when
\* the cycle such an operation schedules meets a malformed token the gate is
\* disabled: no cycle timer is pending, no curve is scheduled and the bus
\* gain is exactly 1.0.
C20_MalformedTokenDisablesGate ==
    /\ ~lastGate.threw
    /\ (/\ gateAmount # 0
        /\ gateSpeedSequence # <<>>
        /\ lastGate.op \in {"updateGateAmount", "updateGateSpeedSequence", "updateGateSpeed", "timer"}
        /\ Malformed(TokenAtCursor)) => GateIdle

\* C21: a startNote or startChord call that raised an error requested stop
\* on no voice and left every entry of the registry, with the state of its
\* voices, as it was before the call.
C21_FailedTriggerChangesNothing ==
    [][(IsTrigger(lastCall') /\ lastCall'.threw) =>
         /\ EventsOf(lastCall'.trace, "stop") = {}
         /\ \A k \in NoteKeys : Untouched(k)]_vars

-----------------------------------------------------------------------------
(* Properties of the gate cycles *)

\* the step played the token, scheduled its curve for the token's duration at
\* the tempo read in the step, moved the cursor one past the given position
\* and left one timer pending, due exactly that duration (in ms) later
CyclePlayed(token, cursor) ==
    LET duration == getNoteDuration(token, Tempo)
    IN /\ lastGate'.played = <<token>>
       /\ gateSequenceIndex' = (cursor + 1) % Len(gateSpeedSequence')
       /\ gateGain'.events = <<[duration |-> duration, duckingAmount |-> Norm(gateAmount', 100)]>>
       /\ timers' = {[id |-> gateTimeout', delay |-> Mul(duration, <<1000, 1>>)]}

\* C22: with random mode off, the cycle a (re)start begins plays token 0 of
\* the sequence, and the cycle a timer callback begins plays the token at the
\* cursor and moves the cursor to the next position modulo the length, so
\* that the k-th cycle after a (re)start plays token k mod n; each cycle's
\* curve lasts the duration of its token at the tempo read in that step (120
\* when no tempo is set) and the next timer is due exactly that duration later.
\* Cycles at a malformed token are the matter of C20.
C22_CyclesFollowTheSequence ==
    [][/\ (/\ IsReconfiguration(lastGate'.op)
           /\ ~gateRandomEnabled'
           /\ gateAmount' # 0
           /\ ~Malformed(gateSpeedSequence'[1])) => CyclePlayed(gateSpeedSequence'[1], 0)
       /\ (/\ lastGate'.op = "timer"
           /\ ~gateRandomEnabled
           /\ ~Malformed(gateSpeedSequence[gateSequenceIndex + 1])) =>
               /\ gateSpeedSequence' = gateSpeedSequence
               /\ CyclePlayed(gateSpeedSequence[gateSequenceIndex + 1], gateSequenceIndex)]_vars

\* C22: a timer callback has played token 0 of a two-token sequence again
\* (the cursor had wrapped) at tempo 90, and the cursor stands at 1
C22_Witness ==
    /\ lastGate.op = "timer"
    /\ ~gateRandomEnabled
    /\ Len(gateSpeedSequence) = 2
    /\ gateSpeedSequence[1] # gateSpeedSequence[2]
    /\ lastGate.played = <<gateSpeedSequence[1]>>
    /\ gateSequenceIndex = 1
    /\ bpm = 90
    /\ \E t \in timers : t.delay = Mul(getNoteDuration(gateSpeedSequence[1], <<90, 1>>), <<1000, 1>>)

\* C23: with random mode on, every step that begins a cycle -- a (re)start
\* or a timer callback -- leaves as working sequence a shuffle of the base
\* sequence drawn in that step, and the cycle plays the first element of that
\* shuffle, for that element's duration, with the cursor reset before it is
\* advanced.  Cycles at a malformed token are the matter of C20.
C23_ShuffleBeforeEveryCycle ==
    [][(/\ IsReconfiguration(lastGate'.op) \/ lastGate'.op = "timer"
        /\ gateRandomEnabled'
        /\ gateAmount' # 0) =>
           /\ IsPermutation(gateSpeedSequence', gateBaseSequence')
           /\ ~Malformed(gateSpeedSequence'[1]) => CyclePlayed(gateSpeedSequence'[1], 0)]_vars

\* C23: a timer callback in random mode has played the second token of a
\* base sequence of two different tokens, as the first element of its shuffle
C23_Witness ==
    /\ lastGate.op = "timer"
    /\ gateRandomEnabled
    /\ Len(gateBaseSequence) = 2
    /\ gateBaseSequence[1] # gateBaseSequence[2]
    /\ lastGate.played = <<gateBaseSequence[2]>>
    /\ gateSpeedSequence[1] = gateBaseSequence[2]

\* C23: and another timer callback in the same mode has played the first
C23_WitnessFirst ==
    /\ lastGate.op = "timer"
    /\ gateRandomEnabled
    /\ Len(gateBaseSequence) = 2
    /\ gateBaseSequence[1] # gateBaseSequence[2]
    /\ lastGate.played = <<gateBaseSequence[1]>>

-----------------------------------------------------------------------------
(* Properties of the three components together *)

SidechainGains == <<sidechainGainGrowl, sidechainGainWatersynth>>

\* C24: no step writes gain parameters of two components: a step that
\* changes the gate bus gain leaves the sidechain bus gains and every voice as
\* they were, a step that changes a sidechain bus gain leaves the gate bus
\* gain and every voice as they were, and a step that changes a voice leaves
\* both kinds of bus gain as they were and touches no entry but the one its
\* key addresses.
C24_NoSharedGainParameter ==
    [][/\ gateGain' # gateGain =>
              /\ SidechainGains' = SidechainGains
              /\ <<voices, activeNotes>>' = <<voices, activeNotes>>
       /\ SidechainGains' # SidechainGains =>
              /\ gateGain' = gateGain /\ timers' = timers
              /\ <<voices, activeNotes>>' = <<voices, activeNotes>>
       /\ <<voices, activeNotes>>' # <<voices, activeNotes>> =>
              /\ gateGain' = gateGain /\ timers' = timers
              /\ SidechainGains' = SidechainGains
              /\ \A k \in NoteKeys \ {lastCall'.key} : Untouched(k)]_vars

\* C24: a duck ramp and a gate curve are scheduled at once while voices
\* sound under both keys, one of them bent
C24_Witness ==
    /\ gateGain.events # <<>>
    /\ timers # {}
    /\ Len(sidechainGainGrowl.events) = 3
    /\ lastDuck = "triggerSidechainDuck"
    /\ lastCall.op = "updatePitchBend"
    /\ DOMAIN activeNotes = NoteKeys
    /\ \E id \in DOMAIN voices : voices[id].stops = 0 /\ voices[id].frequency # voices[id].baseFrequency

-----------------------------------------------------------------------------
(* Properties of the bass doubling *)

RecognizedCount(extensions) ==
    Cardinality({i \in DOMAIN extensions : extensions[i] \in RecognizedExtensions})

\* C25: the entry a trigger leaves holds one voice (startNote) or three plus
\* one per recognized extension (startChord), none of them a bass voice, and
\* after them one bass voice, at half the frequency of the degree, exactly
\* when the bass flag is set and the trigger was given a degree index.
C25_BassDoubling ==
    [][IsTrigger(lastCall') =>
         LET entry == VoicesOf(activeNotes', voices', lastCall'.key)
             withBass == bassMode /\ lastCall'.idx # NoIndex
             own == IF lastCall'.op = "startNote" THEN 1
                    ELSE 3 + RecognizedCount(lastCall'.ext)
         IN /\ Len(entry) = own + (IF withBass THEN 1 ELSE 0)
            /\ \A i \in 1 .. own : ~entry[i].sub
            /\ withBass =>
                   /\ entry[own + 1].sub
                   /\ entry[own + 1].frequency =
                          Mul(getScaleNoteFrequency(lastCall'.idx), <<1, 2>>)]_vars

\* C25: a chord with one extension and the bass voice, five voices in all,
\* and a note triggered without a degree index while the flag is set
C25_Witness ==
    /\ bassMode
    /\ lastCall.op = "startChord"
    /\ lastCall.ext = <<"seventh">>
    /\ Len(activeNotes[lastCall.key]) = 5
    /\ voices[activeNotes[lastCall.key][5]].sub

C25_WitnessNoIndex ==
    /\ bassMode
    /\ lastCall.op = "startNote"
    /\ lastCall.idx = NoIndex
    /\ Len(activeNotes[lastCall.key]) = 1

-----------------------------------------------------------------------------
(* Properties of the drums *)

IsSnareHit(event) == event \in {"SnareDrum.play", "playSound(snare)"}

\* C26: a snare hit -- SnareDrum.play, or SoundManager.playSound with the
\* snare emoji -- invokes the sidechain duck: the step leaves on every created
\* target gain the duck sequence of one triggerSidechainDuck call.
C26_HitsInvokeTheDuck ==
    [][IsSnareHit(lastDuck') =>
         \A i \in DOMAIN Targets :
             Targets[i].created => TargetsAfter[i] = DuckSequence(Targets[i].value)]_vars

-----------------------------------------------------------------------------
(* Properties of voice ownership *)

\* the places of the registry that hold the voice
Holders(id) ==
    {p \in (DOMAIN activeNotes) \X (1 .. Len(voices)) :
        p[2] \in DOMAIN activeNotes[p[1]] /\ activeNotes[p[1]][p[2]] = id}

\* C27: after any sequence of startNote, startChord, stopNoteByKey,
\* stopAllNotes, updatePitchBend and clearActiveNotes calls, no voice is held
\* at two places of the registry, and every voice whose stop has not been
\* requested is held at exactly one.
C27_NoDanglingVoices ==
    \A id \in DOMAIN voices :
        /\ Cardinality(Holders(id)) <= 1
        /\ voices[id].stops = 0 => Cardinality(Holders(id)) = 1

-----------------------------------------------------------------------------
(* Properties of pitch bend *)

\* the voices of the key after the calls updatePitchBend(k, m[1]), ...,
\* updatePitchBend(k, m[n]) made one after the other from the current state
RECURSIVE BentBy(_, _, _)
BentBy(M, k, ms) ==
    IF ms = <<>> THEN [i \in DOMAIN M.notes[k] |-> M.vs[M.notes[k][i]]]
    ELSE BentBy(UpdatePitchBendM(M, k, Head(ms)), k, Tail(ms))

\* C28: in every reachable state and for every sounding key,
\* updatePitchBend(key, m1) followed by updatePitchBend(key, m2) leaves the
\* voices of the key exactly as updatePitchBend(key, m2) alone does;
\* updatePitchBend(key, 1) leaves every voice at its base frequency; and no
\* pitch bend changes the recorded base frequency of a voice.
C28_PitchBendIsAbsolute ==
    \A k \in DOMAIN activeNotes :
        LET now == BentBy(Machine, k, <<>>)
        IN /\ \A m1 \in BendInputs, m2 \in BendInputs :
                  BentBy(Machine, k, <<m1, m2>>) = BentBy(Machine, k, <<m2>>)
           /\ \A i \in DOMAIN now :
                  BentBy(Machine, k, <<One>>)[i].frequency = now[i].baseFrequency
           /\ \A m \in BendInputs : \A i \in DOMAIN now :
                  BentBy(Machine, k, <<m>>)[i].baseFrequency = now[i].baseFrequency

\* C28: a key sounds with every voice bent to twice its base frequency by
\* the last call, so that a further bend starts from a bent voice
C28_Witness ==
    /\ lastCall.op = "updatePitchBend"
    /\ lastCall.m = <<2, 1>>
    /\ Has(activeNotes, lastCall.key)
    /\ Len(activeNotes[lastCall.key]) >= 3
    /\ \A id \in Range(activeNotes[lastCall.key]) :
          /\ voices[id].frequency = Mul(voices[id].baseFrequency, <<2, 1>>)
          /\ voices[id].frequency # voices[id].baseFrequency

-----------------------------------------------------------------------------
(* The gate's timer *)

\* every token of the working and of the base sequence is well formed
TokensValid ==
    /\ \A i \in DOMAIN gateSpeedSequence : ~Malformed(gateSpeedSequence[i])
    /\ \A i \in DOMAIN gateBaseSequence : ~Malformed(gateBaseSequence[i])

CursorValid == gateSequenceIndex \in 0 .. Len(gateSpeedSequence) - 1

\* C29: in every reachable state of the gate whose tokens are all well
\* formed, a cycle timer is pending if and only if the gate amount is not 0,
\* the working sequence is not empty and the cursor is a valid index of it.
C29_TimerPendingIffRunning ==
    TokensValid =>
        (timers # {} <=> (gateAmount # 0 /\ gateSpeedSequence # <<>> /\ CursorValid))

\* C29: a timer callback has rearmed the timer of a running gate of two
\* well-formed tokens, and the handle names the pending timer
C29_Witness ==
    /\ lastGate.op = "timer"
    /\ TokensValid
    /\ gateAmount # 0
    /\ Len(gateSpeedSequence) = 2
    /\ gateSequenceIndex = 1
    /\ timers # {}
    /\ gateTimeout \in TimerIds(timers)

\* C29: and a running gate has been set to amount 0, which cleared its timer
C29_WitnessIdle ==
    /\ lastGate.op = "updateGateAmount"
    /\ lastGate.cancelled
    /\ TokensValid
    /\ gateAmount = 0
    /\ timers = {}

-----------------------------------------------------------------------------
(* The gate under a fair timer *)

\* The gate driven with well-formed tokens only: the sequence passed to
\* updateGateSpeedSequence, which becomes the base sequence, holds none
\* that is malformed.
NextGateLive ==
    \/ updateGateAmount
    \/ updateGateSpeedSequence /\ \A i \in DOMAIN gateBaseSequence' : ~Malformed(gateBaseSequence'[i])
    \/ updateGateSpeed
    \/ gateTimerFires
    \/ setBpm

\* The event loop runs the callback of a timer that stays pending
\* (setTimeout, part_000:653-655).  This is weak fairness of gateTimerFires
\* with its enabling condition written out: the action is enabled exactly
\* when a timer is pending (TimerFiresEnabled), and every firing changes the
\* state, since the new handle differs from the old one.
TimerFairness == []<>(timers = {}) \/ []<><<gateTimerFires>>_vars

SpecGateLive == InitGateAlone /\ [][NextGateLive]_vars /\ TimerFairness

TimerFiresEnabled == (ENABLED <<gateTimerFires>>_vars) <=> timers # {}

\* the gate is on and its tokens are well formed
Running == gateAmount # 0 /\ TokensValid

\* the last step was not a call of one of the three gate operations
LeftAlone == ~IsReconfiguration(lastGate.op)

\* a timer callback has just played the token at position i of the sequence
PlayedPosition(i) ==
    /\ lastGate.op = "timer"
    /\ i <= Len(gateSpeedSequence)
    /\ lastGate.played = <<gateSpeedSequence[i]>>
    /\ gateSequenceIndex = i % Len(gateSpeedSequence)

====
